---- MODULE Spec2Model ----
(***************************************************************************)
(* State-machine model of the conversation analysis core of the bookstore  *)
(* sales assistant:                                                        *)
(*   backend/services/sentiment_analysis.py  (SentimentAnalysisEngine)     *)
(*   backend/services/question_generator.py  (DynamicQuestionGenerator)    *)
(*   backend/main.py                         (extract_order_data, order    *)
(*                                            and summary endpoints)       *)
(*   backend/core/call_summary_generator.py  (CallSummaryGenerator)        *)
(*   backend/core/call_end_handler.py        (generate_call_end_report)    *)
(*   backend/db/database.py                  (MongoDBService)              *)
(*                                                                         *)
(* Real numbers are fixed-point integers: the real x is the integer        *)
(* x * Unit.  Unit is chosen so that every weight, threshold and keyword   *)
(* ratio of the code is an exact integer.  Strings are sequences of        *)
(* tokens; a token is a word, a phrase or a single space.                  *)
(***************************************************************************)
EXTENDS Integers, Sequences, FiniteSets, TLC

VARIABLES
    \* ---- SentimentAnalysisEngine (sentiment_analysis.py:119-130)
    models_initialized,   \* self._models_initialized
    openai_client,        \* self.openai_client is not None
    llama_pipeline,       \* self.llama_pipeline is not None
    emotion_pipeline,     \* self.emotion_pipeline is not None
    sentiment_history,    \* self.sentiment_history: user_id -> list of scores
    sa_inflight,          \* analyze_message_sentiment calls suspended in gather
    sa_calls,             \* number of analyze_message_sentiment calls started
    sa_ret,               \* what the last completed call returned (observer)
    sa_appended,          \* every score ever appended, per user_id (observer)
    now,                  \* datetime.now(), a logical clock
    \* ---- DynamicQuestionGenerator (question_generator.py:100-108)
    qg_openai_client,       \* self.openai_client is not None
    conversation_contexts,  \* self.conversation_contexts: room_id -> context object
    ctx_heap,               \* the ConversationContext objects, by object id
    ctx_live,               \* ids of the objects something still refers to
    qg_inflight,            \* generate_question calls suspended in the external call
    qg_calls,               \* number of generate_question calls started
    qg_ret,                 \* what the last completed call returned (observer)
    \* ---- MongoDBService (db/database.py:14-30) and the summary endpoints
    orders,            \* _memory_orders / orders_collection: room_id -> order
    memory_transcripts,  \* _memory_transcripts / transcripts_collection: room_id -> items
    call_summaries,    \* _memory_call_summaries / call_summaries_collection: documents
    cs_inflight,       \* summary generations suspended between get_order and the store
    cs_calls,          \* number of summary generations started
    cs_last,           \* per room, the last store or delete of a summary (observer)
    admins,            \* _memory_admins / admins_collection: the admin accounts
    auth_last,         \* the last register, verify or login and its answer (observer)
    \* ---- a pure function of the program and the value it returned
    fx_in,
    fx_out

sa_vars == <<models_initialized, openai_client, llama_pipeline, emotion_pipeline,
             sentiment_history, sa_inflight, sa_calls, sa_ret, sa_appended, now>>

qg_vars == <<qg_openai_client, conversation_contexts, ctx_heap, ctx_live, qg_inflight,
             qg_calls, qg_ret>>

admin_vars == <<admins, auth_last>>

db_vars == <<orders, memory_transcripts, call_summaries, cs_inflight, cs_calls, cs_last,
             admin_vars>>

fx_vars == <<fx_in, fx_out>>

vars == <<sa_vars, qg_vars, db_vars, fx_vars>>

Unit == 36 * 100

None == "None"

\* a value that may be None: an int, a text of tokens, a string
NullInt == [null |-> TRUE, v |-> 0]
IntValue(n) == [null |-> FALSE, v |-> n]
NullText == [null |-> TRUE, v |-> <<>>]
Text(text) == [null |-> FALSE, v |-> text]
NullStr == [null |-> TRUE, v |-> ""]
Str(s) == [null |-> FALSE, v |-> s]
\* no order: order_data is None, get_order finds no document
NoOrderData ==
    [null |-> TRUE, order_status |-> NullStr, book_title |-> NullStr,
     total_amount |-> NullInt, updated_at |-> NullStr]

(***************************************************************************)
(* Bounds of the model.                                                    *)
(***************************************************************************)
MaxCalls == 2       \* calls started in one behaviour of Spec
CapCalls == 52      \* calls started in one behaviour of SpecCap
MaxQuestions == 3   \* generate_question calls started in one behaviour of SpecQuestions
MaxDialogue == 6    \* generate_question calls started in one behaviour of SpecDialogue
MaxAdmins == 2      \* accounts registered in one behaviour of SpecAdmins
MaxDays == 9        \* days that pass in one behaviour of SpecAdmins
MaxAsked == 5       \* questions already asked in a context handed to SpecStage
SequentialCalls == 49   \* calls of SpecHistory that run one after the other
MaxHistory == 7     \* calls started in one behaviour of SpecShifts
MaxMessages == 3    \* messages of a transcript handed to SpecOrders
MaxTurns == 3       \* messages of a transcript handed to SpecSummary, after the chatter
MaxSummaryCalls == 2    \* summary generations started in one behaviour of SpecStore

(***************************************************************************)
(* Strings.                                                                *)
(***************************************************************************)
Space == " "

\* len() of a token, in characters
CharLen(tok) ==
    CASE tok = Space       -> 1
      [] tok = "BUY"       -> 3
      [] tok = "but"       -> 3
      [] tok = "however"   -> 7
      [] tok = "expensive" -> 9
      [] tok = "not sure"  -> 8
      [] tok = "great"     -> 5
      [] tok = "soon"      -> 4
      [] tok = "filler"    -> 120   \* a long run of other characters
      [] OTHER             -> 6

\* str.lower() of a token
LowerTok(tok) == IF tok = "BUY" THEN "buy" ELSE tok

RECURSIVE StrLen(_)
StrLen(s) == IF s = <<>> THEN 0 ELSE CharLen(Head(s)) + StrLen(Tail(s))

RECURSIVE LStrip(_)
LStrip(s) == IF s # <<>> /\ Head(s) = Space THEN LStrip(Tail(s)) ELSE s

RECURSIVE RStrip(_)
RStrip(s) ==
    IF s # <<>> /\ s[Len(s)] = Space THEN RStrip(SubSeq(s, 1, Len(s) - 1)) ELSE s

\* the message taken as it comes
StripNothing(s) == s

\* str.strip()
Strip(s) == RStrip(LStrip(s))

\* keyword in token: the one token of the vocabulary that holds a shorter keyword
\* is "non-fiction", which holds "fiction"
TokenContains(tok, keyword) ==
    tok = keyword \/ (tok = "non-fiction" /\ keyword = "fiction")

\* keyword in message.lower()
KeywordIn(keyword, message) ==
    \E i \in 1..Len(message) : TokenContains(LowerTok(message[i]), keyword)

(***************************************************************************)
(* Results of the scoring passes.  A pass result is [kind, d]: kind says   *)
(* whether the Python value is a dict; d is the dict.  A dict value that   *)
(* should be a number is [t, v]: t = "num" for a number v, "str" for a     *)
(* JSON string (v unused).                                                 *)
(***************************************************************************)
Num(n) == [t |-> "num", v |-> n]
NonNum == [t |-> "str", v |-> 0]

Dict(d) == [kind |-> "dict", d |-> d]
ErrorResult == Dict([error |-> "error"])
NotADict == [kind |-> "list", d |-> [error |-> "unused"]]

\* _analyze_with_openai: what json.loads(content) can be when the call succeeds
OpenAIAnswers ==
    { Dict([sentiment |-> "positive", confidence |-> Num(Unit), polarity |-> Num(Unit)]),
      Dict([sentiment |-> "very_negative", confidence |-> Num(4 * Unit),
            polarity |-> Num(-12 * Unit)]),
      Dict([sentiment |-> "neutral", confidence |-> NonNum]),
      NotADict }

AnalyzeWithOpenAI(client) ==
    IF ~client THEN {ErrorResult} ELSE {ErrorResult} \cup OpenAIAnswers

\* what the classifier pipeline can answer: <<label, score>>
LlamaAnswers == { <<"LABEL_2", Unit>>, <<"negative", Unit \div 2>> }

LlamaLabelMap(label) ==
    CASE label \in {"LABEL_0", "negative"} -> "negative"
      [] label \in {"LABEL_1", "neutral"}  -> "neutral"
      [] label \in {"LABEL_2", "positive"} -> "positive"
      [] OTHER                             -> "neutral"

LlamaResult(answer) ==
    LET sentiment == LlamaLabelMap(answer[1])
        confidence == answer[2]
    IN  Dict([sentiment |-> sentiment,
              confidence |-> Num(confidence),
              polarity |-> Num(IF sentiment = "positive" THEN confidence
                               ELSE IF sentiment = "negative" THEN -confidence
                               ELSE 0)])

AnalyzeWithLlama(pipeline) ==
    IF ~pipeline THEN {ErrorResult}
    ELSE {ErrorResult} \cup {LlamaResult(a) : a \in LlamaAnswers}

Abs(x) == IF x < 0 THEN -x ELSE x

\* compound scores the lexicon analyzer can give, in [-1, 1]
VaderCompounds == { -(Unit \div 2) }

VaderResult(compound) ==
    Dict([sentiment |-> IF compound >= Unit \div 2 THEN "positive"
                        ELSE IF compound >= Unit \div 10 THEN "neutral"
                        ELSE IF compound <= -(Unit \div 2) THEN "negative"
                        ELSE "neutral",
          confidence |-> Num(Abs(compound)),
          polarity |-> Num(compound)])

AnalyzeWithVader == {ErrorResult} \cup {VaderResult(c) : c \in VaderCompounds}

\* <<polarity, subjectivity>> the second lexicon analyzer can give
TextBlobSentiments == { <<Unit, Unit>> }

TextBlobResult(s) ==
    Dict([sentiment |-> IF s[1] > Unit \div 10 THEN "positive"
                        ELSE IF s[1] < -(Unit \div 10) THEN "negative"
                        ELSE "neutral",
          confidence |-> Num(Abs(s[1])),
          polarity |-> Num(s[1]),
          subjectivity |-> Num(s[2])])

AnalyzeWithTextBlob == {ErrorResult} \cup {TextBlobResult(s) : s \in TextBlobSentiments}

\* emotions are a set of <<name, score>> pairs
AnalyzeEmotions(pipeline) ==
    IF ~pipeline THEN {ErrorResult}
    ELSE {ErrorResult, Dict([emotions |-> {<<"joy", Unit>>}])}

purchase_keywords == {"buy", "purchase", "order", "get", "want", "need", "interested",
                      "price", "cost", "how much", "available", "in stock"}
objection_keywords == {"but", "however", "expensive", "too much", "can't afford",
                       "not sure", "maybe later", "think about it", "not interested"}
trust_keywords == {"thank you", "great", "perfect", "excellent", "helpful",
                   "recommend", "trust", "reliable", "good"}
urgency_keywords == {"urgent", "asap", "quickly", "soon", "immediately", "rush",
                     "deadline", "time sensitive"}

KeywordCount(keywords, message) ==
    Cardinality({k \in keywords : KeywordIn(k, message)})

Min(a, b) == IF a < b THEN a ELSE b
Max(a, b) == IF a > b THEN a ELSE b

\* count / len(keywords) * factor, capped at 1.0
KeywordScore(keywords, message, factor) ==
    Min((KeywordCount(keywords, message) * factor * Unit) \div Cardinality(keywords), Unit)

AnalyzeSalesContext(message) ==
    Dict([purchase_intent |-> KeywordScore(purchase_keywords, message, 2),
          objection_level |-> KeywordScore(objection_keywords, message, 3),
          trust_level |-> KeywordScore(trust_keywords, message, 2),
          urgency |-> KeywordScore(urgency_keywords, message, 3),
          engagement |-> Min((StrLen(message) * Unit) \div 100, Unit)])

(***************************************************************************)
(* _combine_sentiment_results                                              *)
(***************************************************************************)
\* the fixed weights of the four polarity passes, in percent
WeightOpenAI == 30
WeightLlama == 25
WeightVader == 25
WeightTextBlob == 20

Weights == <<WeightOpenAI, WeightLlama, WeightVader, WeightTextBlob>>

\* isinstance(result, dict) and "error" not in result
Usable(result) == result.kind = "dict" /\ "error" \notin DOMAIN result.d

\* the pass contributes a value for key
Contributes(result, key) == Usable(result) /\ key \in DOMAIN result.d

\* result[key] * weight raises TypeError for a value that is not a number
CombineRaises(four) ==
    \E i \in 1..4 : \E key \in {"confidence", "polarity"} :
        Contributes(four[i], key) /\ four[i].d[key].t # "num"

RECURSIVE SumSeq(_)
SumSeq(s) == IF s = <<>> THEN 0 ELSE Head(s) + SumSeq(Tail(s))

\* the list confidences / polarities: result[key] * weight of every contributing pass
WeightedValues(four, key) ==
    LET idx == {i \in 1..4 : Contributes(four[i], key)}
        F[i \in 0..4] ==
            IF i = 0 THEN <<>>
            ELSE IF i \in idx
                 THEN Append(F[i - 1], (four[i].d[key].v * Weights[i]) \div 100)
                 ELSE F[i - 1]
    IN  F[4]

OverallPolarity(four) ==
    LET polarities == WeightedValues(four, "polarity")
    IN  IF polarities # <<>> THEN SumSeq(polarities) ELSE 0

OverallConfidence(four) ==
    LET confidences == WeightedValues(four, "confidence")
    IN  IF confidences # <<>> THEN SumSeq(confidences) ELSE Unit \div 2

SentimentLabelOf(polarity) ==
    IF polarity > Unit \div 2 THEN "very_positive"
    ELSE IF polarity > Unit \div 10 THEN "positive"
    ELSE IF polarity < -(Unit \div 2) THEN "very_negative"
    ELSE IF polarity < -(Unit \div 10) THEN "negative"
    ELSE "neutral"

DefaultSalesMetrics ==
    [purchase_intent |-> Unit \div 2, objection_level |-> 0, trust_level |-> Unit \div 2,
     urgency |-> 0, engagement |-> Unit \div 2]

CombineSentimentResults(four, emotions_result, sales_context, message, start_time, clock) ==
    LET overall_polarity == OverallPolarity(four)
        sales_metrics == IF Usable(sales_context) THEN sales_context.d
                         ELSE DefaultSalesMetrics
        textblob_result == four[4]
    IN  [overall_sentiment |-> SentimentLabelOf(overall_polarity),
         confidence |-> OverallConfidence(four),
         polarity |-> overall_polarity,
         subjectivity |-> IF textblob_result.kind = "dict"
                             /\ "subjectivity" \in DOMAIN textblob_result.d
                          THEN textblob_result.d.subjectivity.v
                          ELSE Unit \div 2,
         intensity |-> Abs(overall_polarity),
         emotions |-> IF emotions_result.kind = "dict"
                         /\ "emotions" \in DOMAIN emotions_result.d
                      THEN emotions_result.d.emotions ELSE {},
         urgency |-> sales_metrics.urgency,
         engagement |-> sales_metrics.engagement,
         satisfaction |-> Max(0, overall_polarity),
         purchase_intent |-> sales_metrics.purchase_intent,
         objection_level |-> sales_metrics.objection_level,
         trust_level |-> sales_metrics.trust_level,
         timestamp |-> clock,
         message_length |-> StrLen(message),
         processing_time |-> clock - start_time]

CreateNeutralSentiment(start_time, clock) ==
    [overall_sentiment |-> "neutral",
     confidence |-> Unit \div 2,
     polarity |-> 0,
     subjectivity |-> Unit \div 2,
     intensity |-> 0,
     emotions |-> {},
     urgency |-> 0,
     engagement |-> Unit \div 2,
     satisfaction |-> Unit \div 2,
     purchase_intent |-> Unit \div 2,
     objection_level |-> 0,
     trust_level |-> Unit \div 2,
     timestamp |-> clock,
     message_length |-> 0,
     processing_time |-> clock - start_time]

(***************************************************************************)
(* analyze_message_sentiment.  The coroutine is suspended once, in         *)
(* asyncio.gather; everything before and everything after that point runs  *)
(* without interruption on the event loop.                                 *)
(***************************************************************************)
HistoryCap == 50

UserIds == {"room1"}

\* a read of the history that misses what other calls have appended
HistoryOfNothing(user_id) == <<>>

\* self.sentiment_history.get(user_id, [])
HistoryOf(user_id) ==
    IF user_id \in DOMAIN sentiment_history THEN sentiment_history[user_id] ELSE <<>>

\* a trim that keeps the head of the list, history[:50]
TrimHistoryKeepOldest(history) ==
    IF Len(history) > HistoryCap THEN SubSeq(history, 1, HistoryCap) ELSE history

\* a trim that evicts the second-oldest entry instead of the oldest
TrimHistoryNotOldest(history) ==
    IF Len(history) > HistoryCap
    THEN <<history[1]>> \o SubSeq(history, Len(history) - HistoryCap + 2, Len(history))
    ELSE history

\* history[-50:] when the list has grown beyond 50
TrimHistory(history) ==
    IF Len(history) > HistoryCap
    THEN SubSeq(history, Len(history) - HistoryCap + 1, Len(history))
    ELSE history

\* _ensure_models_initialized / _initialize_models; env says what the process
\* environment offers: <<OPENAI_API_KEY set, classifier loads, emotion model loads>>
EnsureModelsInitialized(env) ==
    IF models_initialized
    THEN UNCHANGED <<models_initialized, openai_client, llama_pipeline, emotion_pipeline>>
    ELSE /\ openai_client' = env[1]
         /\ llama_pipeline' = env[2]
         /\ emotion_pipeline' = env[3]
         /\ models_initialized' = TRUE

\* return self._create_neutral_sentiment(start_time)
ReturnNeutral(call, kind, results) ==
    /\ sa_ret' = [call |-> call.call, user_id |-> call.user_id, raw |-> call.raw,
                  message |-> call.message, kind |-> kind, results |-> results,
                  score |-> CreateNeutralSentiment(call.start_time, now)]
    /\ UNCHANGED <<sentiment_history, sa_appended>>

\* the call without its handler: the exception reaches the caller
OnAnalysisExceptionPropagates(call, results) ==
    /\ sa_ret' = [call |-> call.call, user_id |-> call.user_id, raw |-> call.raw,
                  message |-> call.message, kind |-> "raised", results |-> results,
                  score |-> CreateNeutralSentiment(call.start_time, now)]
    /\ UNCHANGED <<sentiment_history, sa_appended>>

\* lines 222-224: `except Exception` around the body of analyze_message_sentiment
OnAnalysisException(call, results) == ReturnNeutral(call, "error", results)

\* lines 178-189: the call up to its suspension in gather
AnalyzeStart(user_id, message, env, max_calls) ==
    /\ sa_calls < max_calls
    /\ sa_calls' = sa_calls + 1
    /\ now' = now + 1
    /\ EnsureModelsInitialized(env)
    /\ LET message_clean == Strip(message)
           call == [call |-> sa_calls + 1, user_id |-> user_id, raw |-> message,
                    message |-> message_clean, start_time |-> now]
       IN  IF message_clean = <<>>
           THEN /\ ReturnNeutral(call, "empty", <<>>)
                /\ UNCHANGED sa_inflight
           ELSE /\ sa_inflight' = sa_inflight \cup {call}
                /\ UNCHANGED <<sa_ret, sentiment_history, sa_appended>>

\* lines 192-224: gather has the six results; combine, record, return
AnalyzeFinish(call, four, emotions_result, sales_context) ==
    /\ call \in sa_inflight
    /\ sa_inflight' = sa_inflight \ {call}
    /\ now' = now + 1
    /\ IF CombineRaises(four)
       THEN OnAnalysisException(call, <<four, emotions_result, sales_context>>)
       ELSE LET sentiment_score ==
                    CombineSentimentResults(four, emotions_result, sales_context,
                                            call.message, call.start_time, now)
                appended == Append(HistoryOf(call.user_id), sentiment_score)
            IN  /\ sentiment_history' =
                       [u \in DOMAIN sentiment_history \cup {call.user_id} |->
                            IF u = call.user_id THEN TrimHistory(appended)
                            ELSE sentiment_history[u]]
                /\ sa_appended' =
                       [sa_appended EXCEPT ![call.user_id] = Append(@, sentiment_score)]
                /\ sa_ret' = [call |-> call.call, user_id |-> call.user_id,
                              raw |-> call.raw, message |-> call.message,
                              kind |-> "score",
                              results |-> <<four, emotions_result, sales_context>>,
                              score |-> sentiment_score]
    /\ UNCHANGED <<models_initialized, openai_client, llama_pipeline, emotion_pipeline,
                   sa_calls>>

\* the six results gather can hand back for a call
AnalyzeFinishAny(call) ==
    \E o \in AnalyzeWithOpenAI(openai_client), l \in AnalyzeWithLlama(llama_pipeline),
       v \in AnalyzeWithVader, t \in AnalyzeWithTextBlob,
       e \in AnalyzeEmotions(emotion_pipeline),
       s \in {AnalyzeSalesContext(call.message)} :
        AnalyzeFinish(call, <<o, l, v, t>>, e, s)

\* main.py 1847-1852, clear_sentiment_history: the entry of the room is deleted
ClearSentimentHistory(room_id) ==
    /\ room_id \in DOMAIN sentiment_history
    /\ sentiment_history' =
           [u \in DOMAIN sentiment_history \ {room_id} |-> sentiment_history[u]]
    /\ sa_appended' = [sa_appended EXCEPT ![room_id] = <<>>]
    /\ UNCHANGED <<models_initialized, openai_client, llama_pipeline, emotion_pipeline,
                   sa_inflight, sa_calls, sa_ret, now>>

SAInit ==
    /\ models_initialized = FALSE
    /\ openai_client = FALSE
    /\ llama_pipeline = FALSE
    /\ emotion_pipeline = FALSE
    /\ sentiment_history = [u \in {} |-> <<>>]
    /\ sa_inflight = {}
    /\ sa_calls = 0
    /\ sa_ret = [call |-> 0, kind |-> "none"]
    /\ sa_appended = [u \in UserIds |-> <<>>]
    /\ now = 0

Environments == BOOLEAN \X BOOLEAN \X BOOLEAN

Messages ==
    { <<>>,
      <<Space, Space>>,
      <<Space, "BUY", Space>>,
      <<"but", Space, "expensive", Space, "however", Space, "not sure", Space,
        "great", Space, "soon", Space, "filler">> }

(***************************************************************************)
(* detect_sentiment_shifts                                                 *)
(***************************************************************************)
\* self.shift_threshold
ShiftThreshold == (3 * Unit) \div 10

ShiftMagnitude(previous, current) ==
    (Abs(current.polarity - previous.polarity)
        + Abs(current.confidence - previous.confidence)) \div 2

SentimentShift(previous, current) ==
    [previous_sentiment |-> previous.overall_sentiment,
     current_sentiment |-> current.overall_sentiment,
     shift_magnitude |-> ShiftMagnitude(previous, current),
     shift_direction |-> IF current.polarity > previous.polarity THEN "positive"
                         ELSE IF current.polarity < previous.polarity THEN "negative"
                         ELSE "neutral",
     trigger_phrases |-> <<>>,
     timestamp |-> current.timestamp,
     confidence |-> Min(current.confidence, previous.confidence)]

\* the loop body for i, i + 1, ... stop - 1: history[-i] against history[-i-1]
RECURSIVE ShiftsFrom(_, _, _)
ShiftsFrom(history, i, stop) ==
    IF i >= stop THEN <<>>
    ELSE LET current == history[Len(history) - i + 1]
             previous == history[Len(history) - i]
         IN  (IF ShiftMagnitude(previous, current) > ShiftThreshold
              THEN <<SentimentShift(previous, current)>> ELSE <<>>)
             \o ShiftsFrom(history, i + 1, stop)

\* a loop over every transition of the history, range(1, len(history))
DetectSentimentShiftsWholeHistory(user_id) ==
    IF user_id \notin DOMAIN sentiment_history \/ Len(sentiment_history[user_id]) < 2
    THEN <<>>
    ELSE ShiftsFrom(sentiment_history[user_id], 1, Len(sentiment_history[user_id]))

DetectSentimentShifts(user_id) ==
    IF user_id \notin DOMAIN sentiment_history \/ Len(sentiment_history[user_id]) < 2
    THEN <<>>
    ELSE ShiftsFrom(sentiment_history[user_id], 1,
                    Min(Len(sentiment_history[user_id]), 6))

(***************************************************************************)
(* DynamicQuestionGenerator                                                *)
(***************************************************************************)
Stages == {"opening", "discovery", "presentation", "objection_handling", "closing",
           "follow_up"}

Template(id, text, type, stage, objection) ==
    [question_id |-> id, text |-> text, question_type |-> type,
     conversation_stage |-> stage, objection_handling |-> objection]

\* _initialize_question_templates: self.question_templates.get(stage, [])
QuestionTemplates(stage) ==
    CASE stage = "opening" ->
           << Template("OPEN_001", "Hello! ... What brings you in today?",
                       "open_ended", "opening", FALSE),
              Template("OPEN_002", "Are you looking for something specific today, ...?",
                       "closed_ended", "opening", FALSE) >>
      [] stage = "discovery" ->
           << Template("DISC_001", "What's your favorite genre of books?",
                       "open_ended", "discovery", FALSE),
              Template("DISC_002", "Are you looking for fiction or non-fiction today?",
                       "closed_ended", "discovery", FALSE),
              Template("DISC_003", "What's the last book you read that you really enjoyed?",
                       "open_ended", "discovery", FALSE),
              Template("DISC_004", "Are you looking for something light ..., or more serious ...?",
                       "closed_ended", "discovery", FALSE) >>
      [] stage = "presentation" ->
           << Template("PRES_001", "Based on what you've told me, ... tell you more about it?",
                       "closed_ended", "presentation", FALSE),
              Template("PRES_002", "This book has received excellent reviews. ...?",
                       "closed_ended", "presentation", FALSE) >>
      [] stage = "objection_handling" ->
           << Template("OBJ_001", "I understand your concern about the price. ...?",
                       "objection_handling", "objection_handling", TRUE),
              Template("OBJ_002", "That's a valid point. What specific aspects ...?",
                       "probing", "objection_handling", TRUE) >>
      [] stage = "closing" ->
           << Template("CLOSE_001", "This book seems like a perfect match for you. ...?",
                       "closing", "closing", FALSE),
              Template("CLOSE_002", "I can see you're really interested in this book. ...?",
                       "closing", "closing", FALSE) >>
      [] OTHER -> <<>>

GenericQuestion(stage) ==
    Template("GENERIC_001", "Tell me more about what you're looking for in a book.",
             "open_ended", stage, FALSE)

\* the value of `question` when the call returns None
NoQuestion == Template("", "", "", "", FALSE)

QuestionTypes == {"open_ended", "closed_ended", "probing", "clarifying",
                  "objection_handling", "closing", "follow_up"}

\* line 316-328: the context a room starts with
NewContext ==
    [stage |-> "opening",
     customer_sentiment |-> "neutral",
     customer_engagement |-> Num(Unit \div 2),
     purchase_intent |-> Num(Unit \div 2),
     objection_level |-> Num(0),
     trust_level |-> Num(Unit \div 2),
     topics_discussed |-> <<>>,
     questions_asked |-> <<>>,
     customer_responses |-> <<>>,
     current_topic |-> "",
     conversation_duration |-> 0]

\* the dict topic_keywords, in its order
TopicKeywords ==
    << <<"fiction", {"fiction", "novel", "story", "character"}>>,
       <<"non-fiction", {"non-fiction", "fact", "real", "true story"}>>,
       <<"mystery", {"mystery", "thriller", "suspense", "crime"}>>,
       <<"romance", {"romance", "love", "relationship", "romantic"}>>,
       <<"business", {"business", "finance", "money", "investment"}>>,
       <<"self-help", {"self-help", "motivation", "improvement", "personal development"}>>,
       <<"price", {"price", "cost", "expensive", "cheap", "budget"}>>,
       <<"author", {"author", "writer", "wrote"}>>,
       <<"genre", {"genre", "type", "category", "kind"}>> >>

AnyKeywordIn(keywords, message) == \E k \in keywords : KeywordIn(k, message)

ExtractTopics(message) ==
    LET F[i \in 0..Len(TopicKeywords)] ==
            IF i = 0 THEN <<>>
            ELSE IF AnyKeywordIn(TopicKeywords[i][2], message)
                 THEN Append(F[i - 1], TopicKeywords[i][1])
                 ELSE F[i - 1]
    IN  F[Len(TopicKeywords)]

ExtractCurrentTopic(message) ==
    IF AnyKeywordIn({"price", "cost", "expensive", "cheap"}, message) THEN "price"
    ELSE IF AnyKeywordIn({"genre", "type", "fiction", "non-fiction"}, message) THEN "genre"
    ELSE IF AnyKeywordIn({"author", "writer"}, message) THEN "author"
    ELSE IF AnyKeywordIn({"buy", "purchase", "order"}, message) THEN "purchase"
    ELSE "general"

\* x in list
InList(x, list) == \E i \in 1..Len(list) : list[i] = x

\* list[-n:]
LastN(list, n) ==
    IF Len(list) > n THEN SubSeq(list, Len(list) - n + 1, Len(list)) ELSE list

StartsWith(message, prefix) == message # <<>> /\ Head(message) = prefix

IsNum(x) == x.t = "num"

\* the comparisons of _determine_conversation_stage raise TypeError on a value
\* that is not a number; `and` evaluates its operands left to right
StageRaises(context) ==
    \/ ~IsNum(context.objection_level)
    \/ /\ context.objection_level.v <= (6 * Unit) \div 10
       /\ \/ ~IsNum(context.purchase_intent)
          \/ /\ context.purchase_intent.v > (7 * Unit) \div 10
             /\ ~IsNum(context.trust_level)

\* the closing signals looked at before the objection level
DetermineConversationStageClosingFirst(context) ==
    IF /\ context.purchase_intent.v > (7 * Unit) \div 10
       /\ context.trust_level.v > (6 * Unit) \div 10
       /\ Len(context.questions_asked) > 3
    THEN "closing"
    ELSE IF context.objection_level.v > (6 * Unit) \div 10
    THEN "objection_handling"
    ELSE IF /\ Len(context.topics_discussed) > 2
            /\ \E topic \in {"genre", "author", "fiction", "non-fiction"} :
                   InList(topic, context.topics_discussed)
    THEN "presentation"
    ELSE IF Len(context.questions_asked) < 3
    THEN "discovery"
    ELSE "presentation"

\* a live transition into follow_up once enough was discussed
DetermineConversationStageFollowUp(context) ==
    IF context.objection_level.v > (6 * Unit) \div 10
    THEN "objection_handling"
    ELSE IF /\ context.purchase_intent.v > (7 * Unit) \div 10
            /\ context.trust_level.v > (6 * Unit) \div 10
            /\ Len(context.questions_asked) > 3
    THEN "closing"
    ELSE IF /\ Len(context.topics_discussed) > 2
            /\ \E topic \in {"genre", "author", "fiction", "non-fiction"} :
                   InList(topic, context.topics_discussed)
    THEN "follow_up"
    ELSE IF Len(context.questions_asked) < 3
    THEN "discovery"
    ELSE "presentation"

\* a stage that is not recomputed
DetermineConversationStageKept(context) == context.stage

DetermineConversationStage(context) ==
    IF context.objection_level.v > (6 * Unit) \div 10
    THEN "objection_handling"
    ELSE IF /\ context.purchase_intent.v > (7 * Unit) \div 10
            /\ context.trust_level.v > (6 * Unit) \div 10
            /\ Len(context.questions_asked) > 3
    THEN "closing"
    ELSE IF /\ Len(context.topics_discussed) > 2
            /\ \E topic \in {"genre", "author", "fiction", "non-fiction"} :
                   InList(topic, context.topics_discussed)
    THEN "presentation"
    ELSE IF Len(context.questions_asked) < 3
    THEN "discovery"
    ELSE "presentation"

\* sentiment_data.get(key, default)
Get(dict, key, default) == IF key \in DOMAIN dict THEN dict[key] ELSE default

\* lines 357-362; sentiment_data is None, or [kind |-> "dict", d |-> the dict]
WithSentimentData(context, sentiment_data) ==
    IF sentiment_data.kind = "none" \/ DOMAIN sentiment_data.d = {}
    THEN context
    ELSE [context EXCEPT
            !.customer_sentiment = Get(sentiment_data.d, "overall_sentiment", "neutral"),
            !.customer_engagement = Get(sentiment_data.d, "engagement", Num(Unit \div 2)),
            !.purchase_intent = Get(sentiment_data.d, "purchase_intent", Num(Unit \div 2)),
            !.objection_level = Get(sentiment_data.d, "objection_level", Num(0)),
            !.trust_level = Get(sentiment_data.d, "trust_level", Num(Unit \div 2))]

\* lines 365-374: the loop over conversation_history[-10:]
RECURSIVE WithMessages(_, _)
WithMessages(context, messages) ==
    IF messages = <<>> THEN context
    ELSE LET message == Head(messages)
             customer == /\ ~StartsWith(message, "Assistant:")
                         /\ ~StartsWith(message, "Agent:")
         IN  WithMessages(
                 [context EXCEPT
                    !.topics_discussed = @ \o ExtractTopics(message),
                    !.customer_responses = IF customer THEN Append(@, message) ELSE @],
                 Tail(messages))

\* an update that forgets the topics of the calls before
UpdateConversationContextFreshTopics(context, conversation_history, sentiment_data) ==
    LET c1 == [WithSentimentData(context, sentiment_data) EXCEPT !.topics_discussed = <<>>]
        c2 == WithMessages(c1, LastN(conversation_history, 10))
    IN  IF StageRaises(c2)
        THEN [raised |-> TRUE, context |-> c2]
        ELSE LET c3 == [c2 EXCEPT !.stage = DetermineConversationStage(c2)]
             IN  [raised |-> FALSE,
                  context |->
                      IF c3.customer_responses # <<>>
                      THEN [c3 EXCEPT !.current_topic =
                               ExtractCurrentTopic(
                                   c3.customer_responses[Len(c3.customer_responses)])]
                      ELSE c3]

\* _update_conversation_context: [raised, context]; when the stage computation
\* raises, the fields written before it keep their new values
UpdateConversationContext(context, conversation_history, sentiment_data) ==
    LET c1 == WithSentimentData(context, sentiment_data)
        c2 == WithMessages(c1, LastN(conversation_history, 10))
    IN  IF StageRaises(c2)
        THEN [raised |-> TRUE, context |-> c2]
        ELSE LET c3 == [c2 EXCEPT !.stage = DetermineConversationStage(c2)]
             IN  [raised |-> FALSE,
                  context |->
                      IF c3.customer_responses # <<>>
                      THEN [c3 EXCEPT !.current_topic =
                               ExtractCurrentTopic(
                                   c3.customer_responses[Len(c3.customer_responses)])]
                      ELSE c3]

\* `similar in question.text.lower()`: every text the generator can have asked holds
\* an upper-case letter, except the empty text of a generated question without
\* "question_text"; the empty string is in every string
SimilarIn(similar, text) == similar = ""

IsQuestionSuitable(question, context) ==
    /\ ~(question.objection_handling /\ context.objection_level.v < (3 * Unit) \div 10)
    /\ question.conversation_stage = context.stage
    /\ ~\E i \in 1..Len(context.questions_asked) :
            SimilarIn(context.questions_asked[i], question.text)

\* the filter without the check against questions_asked
SuitableQuestionsRepeating(context) ==
    LET stage_questions == QuestionTemplates(context.stage)
    IN  { stage_questions[i] : i \in
            { j \in 1..Len(stage_questions) :
                IsQuestionSuitable(stage_questions[j], context) } }

\* the list suitable_questions, as a set: random.choice picks any member
SuitableQuestions(context) ==
    LET stage_questions == QuestionTemplates(context.stage)
    IN  { stage_questions[i] : i \in
            { j \in 1..Len(stage_questions) :
                /\ ~InList(stage_questions[j].text, context.questions_asked)
                /\ IsQuestionSuitable(stage_questions[j], context) } }

\* _generate_template_question: the questions it can return; {NoQuestion} is None
GenerateTemplateQuestion(context) ==
    IF QuestionTemplates(context.stage) = <<>> THEN {NoQuestion}
    ELSE IF SuitableQuestions(context) = {} THEN {GenericQuestion(context.stage)}
    ELSE SuitableQuestions(context)

\* what the external generation call can end in: an exception, or json.loads(content)
AIAnswers ==
    { [kind |-> "exception", d |-> [error |-> "api"]],
      [kind |-> "list", d |-> [error |-> "unused"]],
      Dict([question_text |-> "Which author do you like?", question_type |-> "probing"]),
      Dict([question_type |-> "open_ended"]),
      Dict([question_text |-> "Shall we?", question_type |-> "yes_no"]) }

\* lines 497-514: a Question from the answer, or None on any exception
GenerateAIQuestion(context, answer) ==
    IF answer.kind # "dict" THEN NoQuestion
    ELSE LET type == Get(answer.d, "question_type", "open_ended")
         IN  IF type \notin QuestionTypes THEN NoQuestion
             ELSE Template("AI", Get(answer.d, "question_text", ""), type,
                           context.stage, FALSE)

Rooms == {"room1"}
ObjIds == 1..(Cardinality(Rooms) + MaxQuestions)

\* object ids something refers to: the map and the suspended calls
Referenced(contexts, inflight) ==
    ({contexts[r] : r \in Rooms} \cup {c.context : c \in inflight}) \ {0}

\* the heap without the objects nothing refers to any more
Collected(heap, live) == [k \in ObjIds |-> IF k \in live THEN heap[k] ELSE NewContext]

\* lines 340-345: record the question in the context the call holds, store the
\* context under the room id, return; contexts is the map as the call finds it
ReturnQuestion(call, context_id, context, question, path, failed, contexts) ==
    LET asked == IF question = NoQuestion THEN context
                 ELSE [context EXCEPT !.questions_asked = Append(@, question.text)]
        stored == IF question = NoQuestion THEN contexts
                  ELSE [contexts EXCEPT ![call.room_id] = context_id]
        live == Referenced(stored, qg_inflight \ {call})
    IN  /\ ctx_heap' = Collected([ctx_heap EXCEPT ![context_id] = asked], live)
        /\ ctx_live' = live
        /\ conversation_contexts' = stored
        /\ qg_ret' = [call |-> call.call, room_id |-> call.room_id, path |-> path,
                      failed |-> failed, question |-> question,
                      stage |-> context.stage,
                      asked_before |-> context.questions_asked,
                      objection_level |-> context.objection_level]

\* lines 313-349 up to the first suspension: on the template path the whole call
GenerateQuestionStart(room_id, conversation_history, sentiment_data, max_calls) ==
    /\ qg_calls < max_calls
    /\ qg_calls' = qg_calls + 1
    /\ UNCHANGED qg_openai_client
    /\ LET existing == conversation_contexts[room_id]
           context_id == IF existing # 0 THEN existing
                         ELSE CHOOSE k \in ObjIds \ ctx_live :
                                  \A j \in ObjIds \ ctx_live : k <= j
           before == IF existing # 0 THEN ctx_heap[existing] ELSE NewContext
           updated == UpdateConversationContext(before, conversation_history,
                                                sentiment_data)
           context == updated.context
           call == [call |-> qg_calls + 1, room_id |-> room_id, context |-> context_id]
           stored == [conversation_contexts EXCEPT ![room_id] = context_id]
       IN  IF updated.raised
           THEN \* the except branch: return None, the context stays as far as written
                /\ ctx_heap' = [ctx_heap EXCEPT ![context_id] = context]
                /\ conversation_contexts' = stored
                /\ ctx_live' = Referenced(stored, qg_inflight)
                /\ qg_ret' = [call |-> call.call, room_id |-> room_id, path |-> "raised",
                              failed |-> TRUE, question |-> NoQuestion,
                              stage |-> context.stage,
                              asked_before |-> context.questions_asked,
                              objection_level |-> context.objection_level]
                /\ UNCHANGED qg_inflight
           ELSE IF qg_openai_client
           THEN \* suspended in self.openai_client.chat.completions.create
                /\ ctx_heap' = [ctx_heap EXCEPT ![context_id] = context]
                /\ conversation_contexts' = stored
                /\ qg_inflight' = qg_inflight \cup {call}
                /\ ctx_live' = Referenced(stored, qg_inflight')
                /\ UNCHANGED qg_ret
           ELSE /\ \E question \in GenerateTemplateQuestion(context) :
                       ReturnQuestion(call, context_id, context, question, "template",
                                      FALSE, stored)
                /\ UNCHANGED qg_inflight

\* the external call of a suspended generate_question has ended with `answer`
GenerateQuestionResume(call, answer) ==
    /\ call \in qg_inflight
    /\ qg_inflight' = qg_inflight \ {call}
    /\ LET context == ctx_heap[call.context]
           question == GenerateAIQuestion(context, answer)
       IN  ReturnQuestion(call, call.context, context, question, "ai",
                          question = NoQuestion, conversation_contexts)
    /\ UNCHANGED <<qg_openai_client, qg_calls>>

\* clear_conversation_context
ClearConversationContext(room_id) ==
    /\ conversation_contexts[room_id] # 0
    /\ conversation_contexts' = [conversation_contexts EXCEPT ![room_id] = 0]
    /\ ctx_live' = Referenced(conversation_contexts', qg_inflight)
    /\ ctx_heap' = Collected(ctx_heap, ctx_live')
    /\ UNCHANGED <<qg_openai_client, qg_inflight, qg_calls, qg_ret>>

\* the generator after __init__; client: whether OPENAI_API_KEY was set
QGInit(client) ==
    /\ qg_openai_client = client
    /\ conversation_contexts = [r \in Rooms |-> 0]
    /\ ctx_heap = [k \in ObjIds |-> NewContext]
    /\ ctx_live = {}
    /\ qg_inflight = {}
    /\ qg_calls = 0
    /\ qg_ret = [call |-> 0, path |-> "none"]

(***************************************************************************)
(* Spec: the engine under every environment and every answer of the        *)
(* passes, for a few calls that may overlap.                               *)
(***************************************************************************)
FXInit == fx_in = None /\ fx_out = None

\* the rooms of the summary store
SummaryRooms == {"room1", "room2"}

\* an empty store, no summary generation under way
DBInit ==
    /\ orders = [room_id \in SummaryRooms |-> NoOrderData]
    /\ memory_transcripts = [room_id \in SummaryRooms |-> <<>>]
    /\ admins = <<>>
    /\ auth_last = [op |-> "none", status |-> 0, admin |-> 0]
    /\ call_summaries = {}
    /\ cs_inflight = {}
    /\ cs_calls = 0
    /\ cs_last = [room_id \in SummaryRooms |->
                    [op |-> "none", summary_id |-> 0, replaced |-> FALSE,
                     order_data |-> NoOrderData, call_outcome |-> ""]]

Init == SAInit /\ QGInit(FALSE) /\ DBInit /\ FXInit

Next ==
    \/ /\ \E u \in UserIds, m \in Messages, env \in Environments :
              AnalyzeStart(u, m, env, MaxCalls)
       /\ UNCHANGED <<qg_vars, db_vars, fx_vars>>
    \/ /\ \E call \in sa_inflight : AnalyzeFinishAny(call)
       /\ UNCHANGED <<qg_vars, db_vars, fx_vars>>

Spec == Init /\ [][Next]_vars

(***************************************************************************)
(* SpecCap: one caller at a time sends many messages for one id.           *)
(***************************************************************************)
CapEnvironment == <<FALSE, FALSE, FALSE>>
CapMessage == <<"great", Space, "soon">>

NextCap ==
    \/ /\ sa_inflight = {}
       /\ \E u \in UserIds : AnalyzeStart(u, CapMessage, CapEnvironment, CapCalls)
       /\ UNCHANGED <<qg_vars, db_vars, fx_vars>>
    \/ /\ \E call \in sa_inflight :
              AnalyzeFinish(call,
                            <<ErrorResult, ErrorResult, VaderResult(-(Unit \div 2)),
                              TextBlobResult(<<Unit, Unit>>)>>,
                            ErrorResult, AnalyzeSalesContext(call.message))
       /\ UNCHANGED <<qg_vars, db_vars, fx_vars>>

SpecCap == Init /\ [][NextCap]_vars

(***************************************************************************)
(* SpecQuestions: generate_question and clear_conversation_context, with   *)
(* and without an external generation client.                              *)
(***************************************************************************)
SentimentInputs ==
    { [kind |-> "none", d |-> [error |-> "unused"]],
      Dict([overall_sentiment |-> "negative", objection_level |-> Num((8 * Unit) \div 10)]),
      Dict([overall_sentiment |-> "positive", purchase_intent |-> Num((9 * Unit) \div 10),
            trust_level |-> Num((9 * Unit) \div 10),
            objection_level |-> Num(Unit \div 10)]),
      Dict([objection_level |-> NonNum]) }

Histories ==
    { <<>>,
      << <<"Assistant:", Space, "non-fiction", Space, "author", Space, "price">>,
         <<"ok">>, <<"ok">>, <<"ok">>, <<"ok">>, <<"ok">>, <<"ok">>, <<"ok">>, <<"ok">>,
         <<"Agent:", Space, "ok">>,
         <<"which", Space, "genre">> >>,
      << <<"Assistant:", Space, "non-fiction", Space, "author">>,
         <<"BUY", Space, "price">> >> }

NextQuestions ==
    \/ /\ qg_inflight = {}
       /\ \E r \in Rooms, h \in Histories, sd \in SentimentInputs :
              GenerateQuestionStart(r, h, sd, MaxQuestions)
       /\ UNCHANGED <<sa_vars, db_vars, fx_vars>>
    \/ /\ \E call \in qg_inflight, answer \in AIAnswers :
              GenerateQuestionResume(call, answer)
       /\ UNCHANGED <<sa_vars, db_vars, fx_vars>>
    \/ /\ \E r \in Rooms : ClearConversationContext(r)
       /\ UNCHANGED <<sa_vars, db_vars, fx_vars>>

InitQuestions == SAInit /\ (\E client \in BOOLEAN : QGInit(client)) /\ DBInit /\ FXInit

SpecQuestions == InitQuestions /\ [][NextQuestions]_vars

(***************************************************************************)
(* SpecHistory: one id whose history is filled up to the cap, cleared at    *)
(* any moment, and whose last calls overlap.                               *)
(***************************************************************************)
NextHistory ==
    \/ /\ sa_calls < SequentialCalls => sa_inflight = {}
       /\ \E u \in UserIds : AnalyzeStart(u, CapMessage, CapEnvironment, CapCalls)
       /\ UNCHANGED <<qg_vars, db_vars, fx_vars>>
    \/ /\ \E call \in sa_inflight :
              AnalyzeFinish(call,
                            <<ErrorResult, ErrorResult, VaderResult(-(Unit \div 2)),
                              TextBlobResult(<<Unit, Unit>>)>>,
                            ErrorResult, AnalyzeSalesContext(call.message))
       /\ UNCHANGED <<qg_vars, db_vars, fx_vars>>
    \/ /\ \E u \in UserIds : ClearSentimentHistory(u)
       /\ UNCHANGED <<qg_vars, db_vars, fx_vars>>

SpecHistory == Init /\ [][NextHistory]_vars

(***************************************************************************)
(* SpecDialogue: MaxDialogue generate_question calls for a room whose       *)
(* context is never cleared.                                               *)
(***************************************************************************)
DialogueHistories ==
    { <<>>,
      << <<"Assistant:", Space, "non-fiction", Space, "author">>,
         <<"BUY", Space, "price">> >> }

NextDialogue ==
    \/ /\ qg_inflight = {}
       /\ \E r \in Rooms, h \in DialogueHistories, sd \in SentimentInputs :
              GenerateQuestionStart(r, h, sd, MaxDialogue)
       /\ UNCHANGED <<sa_vars, db_vars, fx_vars>>
    \/ /\ \E call \in qg_inflight, answer \in AIAnswers :
              GenerateQuestionResume(call, answer)
       /\ UNCHANGED <<sa_vars, db_vars, fx_vars>>

SpecDialogue == InitQuestions /\ [][NextDialogue]_vars

(***************************************************************************)
(* SpecStage: _determine_conversation_stage applied to a context.          *)
(***************************************************************************)
Levels == { Num((i * Unit) \div 10) : i \in {0, 3, 6, 7, 9} }

TopicLists ==
    { <<>>,
      <<"genre">>,
      <<"genre", "genre", "genre">>,
      <<"price", "romance", "mystery">>,
      <<"fiction", "non-fiction", "author", "price">> }

\* n questions asked: the generic question can be asked any number of times
AskedLists == { [i \in 1..n |-> GenericQuestion("discovery").text] : n \in 0..MaxAsked }

StageContexts ==
    { [NewContext EXCEPT !.objection_level = o, !.purchase_intent = p,
                         !.trust_level = t, !.topics_discussed = topics,
                         !.questions_asked = asked] :
        o \in Levels, p \in Levels, t \in Levels, topics \in TopicLists,
        asked \in AskedLists }

StageInit ==
    /\ SAInit
    /\ QGInit(FALSE)
    /\ DBInit
    /\ fx_in \in StageContexts
    /\ fx_out = None

ApplyDetermineConversationStage ==
    /\ fx_out = None
    /\ fx_out' = DetermineConversationStage(fx_in)
    /\ UNCHANGED <<fx_in, sa_vars, qg_vars, db_vars>>

NextStage == ApplyDetermineConversationStage

SpecStage == StageInit /\ [][NextStage]_vars

(***************************************************************************)
(* SpecShifts: one caller sends messages for one id, one at a time, and    *)
(* then asks for the shifts.  The passes answer so that the score is, as   *)
(* <<polarity, confidence>>,                                               *)
(*   <<0, 0>>      only the external model answers, with zeros             *)
(*   <<.3, .3>>    only the external model answers, with ones              *)
(*   <<-3.6, 1.2>> only the external model answers, with -12 and 4         *)
(*   <<0, .8>>     all four passes answer and their polarities cancel      *)
(***************************************************************************)
ShiftEnvironment == <<TRUE, TRUE, TRUE>>

ShiftResults ==
    { <<Dict([sentiment |-> "neutral", confidence |-> Num(0), polarity |-> Num(0)]),
        ErrorResult, ErrorResult, ErrorResult>>,
      <<Dict([sentiment |-> "positive", confidence |-> Num(Unit), polarity |-> Num(Unit)]),
        ErrorResult, ErrorResult, ErrorResult>>,
      <<Dict([sentiment |-> "very_negative", confidence |-> Num(4 * Unit),
              polarity |-> Num(-12 * Unit)]),
        ErrorResult, ErrorResult, ErrorResult>>,
      <<Dict([sentiment |-> "neutral", confidence |-> Num(Unit), polarity |-> Num(0)]),
        LlamaResult(<<"LABEL_1", Unit>>), VaderResult(Unit \div 2),
        TextBlobResult(<<-((5 * Unit) \div 8), Unit>>)>> }

ApplyDetectSentimentShifts ==
    /\ fx_in = None
    /\ sa_inflight = {}
    /\ \E user_id \in UserIds :
          /\ fx_in' = user_id
          /\ fx_out' = DetectSentimentShifts(user_id)
    /\ UNCHANGED <<sa_vars, qg_vars, db_vars>>

NextShifts ==
    \/ /\ fx_in = None
       /\ sa_inflight = {}
       /\ \E u \in UserIds : AnalyzeStart(u, CapMessage, ShiftEnvironment, MaxHistory)
       /\ UNCHANGED <<qg_vars, db_vars, fx_vars>>
    \/ /\ \E call \in sa_inflight, four \in ShiftResults :
              AnalyzeFinish(call, four, ErrorResult, AnalyzeSalesContext(call.message))
       /\ UNCHANGED <<qg_vars, db_vars, fx_vars>>
    \/ ApplyDetectSentimentShifts

SpecShifts == Init /\ [][NextShifts]_vars

(***************************************************************************)
(* extract_order_data (main.py).  full_text is a sequence of tokens: words *)
(* (letters only), numbers (digits only), punctuation, Space and Newline.  *)
(* A regular expression is modelled by what re.search does with it on such *)
(* a text: the leftmost position where it matches, and the group it        *)
(* captures there.  The patterns are case-insensitive; OrderLower is       *)
(* str.lower() on the vocabulary.  No word of the vocabulary holds a       *)
(* trigger phrase of a pattern inside it, so a match starts at a token.    *)
(***************************************************************************)
Newline == "\n"

WhiteSpace == {Space, Newline}

OrderWords ==
    {"my", "name", "is", "Priya", "I", "want", "pay", "by", "card", "copies", "two",
     "please", "fast", "pickup", "genre", "fiction", "also", "gift", "wrap", "phone",
     "book", "Dune", "ship", "to", "Elm", "Road"}

OrderNumbers == {"2", "5", "12345", "5550100"}

OrderLower(tok) ==
    CASE tok = "Priya" -> "priya"
      [] tok = "I"     -> "i"
      [] tok = "Dune"  -> "dune"
      [] tok = "Elm"   -> "elm"
      [] tok = "Road"  -> "road"
      [] OTHER         -> tok

\* len() of a token of the transcript vocabulary
TokLen(tok) ==
    CASE tok \in {"I", "2", "5", ",", ".", ":", "'", Space, Newline}       -> 1
      [] tok \in {"my", "is", "by", "to", "no"}                            -> 2
      [] tok \in {"pay", "two", "Elm", "too"}                              -> 3
      [] tok \in {"name", "want", "card", "fast", "also", "gift", "wrap",
                  "book", "Dune", "ship", "Road", "very", "good", "time",
                  "boss"}                                                  -> 4
      [] tok \in {"Priya", "genre", "phone", "12345", "maybe", "later",
                  "trust"}                                                 -> 5
      [] tok \in {"copies", "please", "pickup", "sounds"}                  -> 6
      [] tok \in {"fiction", "5550100"}                                    -> 7
      [] tok \in {"expensive", "recommend"}                                -> 9
      [] tok \in {"understand"}                                            -> 10
      [] OTHER                                                             -> 4

\* len() of a text: the sum of the lengths of its tokens, by halves
RECURSIVE TextLen(_)
TextLen(text) ==
    IF text = <<>> THEN 0
    ELSE IF Len(text) = 1 THEN TokLen(text[1])
    ELSE TextLen(SubSeq(text, 1, Len(text) \div 2))
            + TextLen(SubSeq(text, Len(text) \div 2 + 1, Len(text)))

\* "\n".join(messages)
RECURSIVE JoinLines(_)
JoinLines(messages) ==
    IF messages = <<>> THEN <<>>
    ELSE IF Len(messages) = 1 THEN messages[1]
    ELSE messages[1] \o <<Newline>> \o JoinLines(Tail(messages))

\* the end of the longest run of tokens of `allowed` that starts at i (i - 1: none)
RunEnd(text, i, allowed) ==
    CHOOSE j \in (i - 1)..Len(text) :
        /\ \A k \in i..j : text[k] \in allowed
        /\ j = Len(text) \/ text[j + 1] \notin allowed

\* \s* from i on: the first position that is not white space
SkipSpace(text, i) == RunEnd(text, i, WhiteSpace) + 1

\* str.strip() of a captured group
StripText(text) ==
    LET first == SkipSpace(text, 1)
        last == CHOOSE j \in 0..Len(text) :
                    /\ \A k \in (j + 1)..Len(text) : text[k] \in WhiteSpace
                    /\ j = 0 \/ text[j] \notin WhiteSpace
    IN  IF first > last THEN <<>> ELSE SubSeq(text, first, last)

\* word1\s+word2\s+...wordn at i: the position after wordn, 0 when it is not there
RECURSIVE PhraseAt(_, _, _)
PhraseAt(text, i, phrase) ==
    IF phrase = <<>> THEN i
    ELSE IF i > Len(text) \/ OrderLower(text[i]) # Head(phrase) THEN 0
    ELSE IF Tail(phrase) = <<>> THEN i + 1
    ELSE LET j == SkipSpace(text, i + 1)
         IN  IF j = i + 1 THEN 0 ELSE PhraseAt(text, j, Tail(phrase))

\* the least member of a set of positions, 0 for the empty set: re.search is leftmost
Leftmost(positions) ==
    IF positions = {} THEN 0 ELSE CHOOSE i \in positions : \A j \in positions : i <= j

\* a match object: where the match starts, and group(1)
NoMatch == [matched |-> FALSE, at |-> 0, groups |-> 0, group1 |-> <<>>]
MatchOf(at, group) == [matched |-> TRUE, at |-> at, groups |-> 1, group1 |-> group]
\* a match of a pattern that has no capturing group
MatchWithoutGroup(at) == [matched |-> TRUE, at |-> at, groups |-> 0, group1 |-> <<>>]

\* ([a-zA-Z][a-zA-Z\s']{2,40}) at i: a word and the letters, white space and
\* apostrophes after it, at least 3 characters (the texts are short of the 41 it stops at)
NameGroupAt(text, i) ==
    IF i = 0 \/ i > Len(text) \/ text[i] \notin OrderWords THEN <<>>
    ELSE LET group == SubSeq(text, i,
                             RunEnd(text, i, OrderWords \cup WhiteSpace \cup {"'"}))
         IN  IF TextLen(group) >= 3 THEN group ELSE <<>>

\* prefix\s+(group) for one of the prefixes, leftmost
PrefixedNameMatch(text, prefixes) ==
    LET GroupAfter(i, prefix) ==
            LET e == PhraseAt(text, i, prefix)
                g == SkipSpace(text, e)
            IN  IF e = 0 \/ g = e THEN <<>> ELSE NameGroupAt(text, g)
        at == Leftmost({i \in 1..Len(text) :
                          \E prefix \in prefixes : GroupAfter(i, prefix) # <<>>})
    IN  IF at = 0 THEN NoMatch
        ELSE MatchOf(at, GroupAfter(at, CHOOSE prefix \in prefixes :
                                        GroupAfter(at, prefix) # <<>>))

\* [A-Z][a-z]+ under (?i): a word of two letters or more
LongWords == OrderWords \ {"I"}

\* ([A-Z][a-z]+(?:\s+[A-Z][a-z]+)*) at i: words of two letters or more with white
\* space between them
RECURSIVE WordsGroupEnd(_, _)
WordsGroupEnd(text, i) ==
    LET j == SkipSpace(text, i + 1)
    IN  IF j > i + 1 /\ j <= Len(text) /\ text[j] \in LongWords
        THEN WordsGroupEnd(text, j) ELSE i

\* name_patterns[1]: an optional greeting, then the words
GreetingNameMatch(text) ==
    LET at == Leftmost({i \in 1..Len(text) : text[i] \in LongWords})
        greeted == IF at = 0 THEN 0
                   ELSE LET e == Leftmost({PhraseAt(text, at, g) :
                                             g \in {<<"hello">>, <<"hi">>,
                                                    <<"good", "morning">>,
                                                    <<"good", "afternoon">>,
                                                    <<"good", "evening">>}} \ {0})
                            j == IF e = 0 THEN 0 ELSE SkipSpace(text, e)
                        IN  IF e # 0 /\ j > e /\ j <= Len(text) /\ text[j] \in LongWords
                            THEN j ELSE 0
        start == IF greeted # 0 THEN greeted ELSE at
    IN  IF at = 0 THEN NoMatch
        ELSE MatchOf(at, SubSeq(text, start, WordsGroupEnd(text, start)))

\* the loop over name_patterns
NameMatch(text) ==
    LET first == PrefixedNameMatch(text, {<<"my", "name", "is">>, <<"i", "am">>,
                                          <<"this", "is">>, <<"call", "me">>})
        second == GreetingNameMatch(text)
    IN  IF first.matched THEN first
        ELSE IF second.matched THEN second
        ELSE PrefixedNameMatch(text, {<<"speaking", "with">>, <<"talking", "to">>})

\* \b\d{1,3}\b
SmallNumbers == {n \in OrderNumbers : TokLen(n) <= 3}

\* copies?|units?|books?|pieces? match the start of a word
QuantityUnits == {"copies"}
\* copies?|units?|books?
BuyUnits == {"copies"}
\* copies?|books?
WordUnits == {"copies"}

NumberWords == {"one", "two", "three", "four", "five", "six", "seven", "eight", "nine",
                "ten"}

\* (number)\s*unit at i: the position after the unit, 0 when it is not there
CountedAt(text, i, units) ==
    IF i = 0 \/ i > Len(text) \/ text[i] \notin SmallNumbers THEN 0
    ELSE LET u == SkipSpace(text, i + 1)
         IN  IF u <= Len(text) /\ text[u] \in units THEN u + 1 ELSE 0

\* trigger\s+(number)\s*unit for a trigger word of `triggers`, leftmost
TriggeredQuantityMatch(text, triggers, units) ==
    LET NumberAfter(i) ==
            LET j == SkipSpace(text, i + 1)
            IN  IF OrderLower(text[i]) \in triggers /\ j > i + 1
                   /\ CountedAt(text, j, units) # 0
                THEN j ELSE 0
        at == Leftmost({i \in 1..Len(text) : NumberAfter(i) # 0})
    IN  IF at = 0 THEN NoMatch ELSE MatchOf(at, <<text[NumberAfter(at)]>>)

\* quantity\s*[:\-]?\s*(number)\s*unit, leftmost
LabelledQuantityMatch(text) ==
    LET NumberAfter(i) ==
            LET c == SkipSpace(text, i + 1)
                j == IF c <= Len(text) /\ text[c] \in {":", "-"}
                     THEN SkipSpace(text, c + 1) ELSE c
            IN  IF OrderLower(text[i]) = "quantity" /\ CountedAt(text, j, QuantityUnits) # 0
                THEN j ELSE 0
        at == Leftmost({i \in 1..Len(text) : NumberAfter(i) # 0})
    IN  IF at = 0 THEN NoMatch ELSE MatchOf(at, <<text[NumberAfter(at)]>>)

\* qty_patterns[0]: the leftmost of its two kinds of match
FirstQuantityMatch(text) ==
    LET labelled == LabelledQuantityMatch(text)
        triggered == TriggeredQuantityMatch(text, {"need", "want", "order"}, QuantityUnits)
    IN  IF ~labelled.matched THEN triggered
        ELSE IF ~triggered.matched THEN labelled
        ELSE IF labelled.at <= triggered.at THEN labelled ELSE triggered

\* qty_patterns[1]: (number)\s*unit\s*(?:of|please)
PoliteQuantityMatch(text) ==
    LET Closed(i) ==
            LET e == CountedAt(text, i, QuantityUnits)
                c == SkipSpace(text, e)
            IN  e # 0 /\ c <= Len(text) /\ OrderLower(text[c]) \in {"of", "please"}
        at == Leftmost({i \in 1..Len(text) : Closed(i)})
    IN  IF at = 0 THEN NoMatch ELSE MatchOf(at, <<text[at]>>)

\* qty_patterns[3]: a number word and a unit; the pattern has no capturing group
WordQuantityMatch(text) ==
    LET at == Leftmost({i \in 1..Len(text) :
                          /\ OrderLower(text[i]) \in NumberWords
                          /\ SkipSpace(text, i + 1) > i + 1
                          /\ SkipSpace(text, i + 1) <= Len(text)
                          /\ text[SkipSpace(text, i + 1)] \in WordUnits})
    IN  IF at = 0 THEN NoMatch ELSE MatchWithoutGroup(at)

\* the loop over qty_patterns.  The search for a number word that follows it when
\* nothing matched needs what qty_patterns[3] needs, so it finds nothing.
QuantityMatch(text) ==
    LET first == FirstQuantityMatch(text)
        second == PoliteQuantityMatch(text)
        third == TriggeredQuantityMatch(text, {"buy", "purchase", "get"}, BuyUnits)
    IN  IF first.matched THEN first
        ELSE IF second.matched THEN second
        ELSE IF third.matched THEN third
        ELSE WordQuantityMatch(text)

\* int() of a number of the vocabulary
IntOf(tok) ==
    CASE tok = "2"       -> 2
      [] tok = "5"       -> 5
      [] tok = "12345"   -> 12345
      [] OTHER           -> 5550100

\* a conversion that lets the exception of group(1) through
QuantityValUnguarded(qty_match) ==
    IF ~qty_match.matched THEN [raised |-> FALSE, value |-> NullInt]
    ELSE IF qty_match.groups = 0 THEN [raised |-> TRUE, value |-> NullInt]
    ELSE [raised |-> FALSE, value |-> IntValue(IntOf(qty_match.group1[1]))]

\* quantity_val: int(qty_match.group(1)); group(1) of a match without a group raises
\* IndexError, which the except clause turns into None
QuantityVal(qty_match) ==
    IF ~qty_match.matched THEN [raised |-> FALSE, value |-> NullInt]
    ELSE IF qty_match.groups = 0 THEN [raised |-> FALSE, value |-> NullInt]
    ELSE [raised |-> FALSE, value |-> IntValue(IntOf(qty_match.group1[1]))]

\* the positions a phrase of `phrases` that starts at i can end at
PhraseEnds(text, i, phrases) == {PhraseAt(text, i, phrase) : phrase \in phrases} \ {0}

\* \s*[:\-]?\s* from e on
AfterSeparator(text, e) ==
    LET c == SkipSpace(text, e)
    IN  IF c <= Len(text) /\ text[c] \in {":", "-"} THEN SkipSpace(text, c + 1) ELSE c

LowerText(text) == [i \in 1..Len(text) |-> OrderLower(text[i])]

\* one of the payment methods at g, as the text has it; <<>> when there is none.
\* `single` are the methods of one word, `double` the first words of "... card"
PaymentMethodAt(text, g, single, double, cash_on_delivery) ==
    IF g = 0 \/ g > Len(text) THEN <<>>
    ELSE LET card == PhraseAt(text, g, <<OrderLower(text[g]), "card">>)
             cod == PhraseAt(text, g, <<"cash", "on", "delivery">>)
         IN  IF OrderLower(text[g]) \in double /\ card # 0 THEN SubSeq(text, g, card - 1)
             ELSE IF cash_on_delivery /\ cod # 0 THEN SubSeq(text, g, cod - 1)
             ELSE IF OrderLower(text[g]) \in single THEN <<text[g]>>
             ELSE <<>>

\* pay_patterns[0]
PrefixedPaymentMatch(text) ==
    LET single == {"online", "card", "cash", "cod", "upi", "netbanking", "paypal", "gpay",
                   "phonepe", "paytm"}
        Starts(i) ==
            {SkipSpace(text, e) :
                e \in PhraseEnds(text, i, {<<"pay", "by">>, <<"pay", "with">>,
                                           <<"pay", "using">>, <<"paying", "by">>,
                                           <<"paying", "with">>})}
            \cup {AfterSeparator(text, e) :
                    e \in PhraseEnds(text, i, {<<"payment">>, <<"payment", "method">>,
                                               <<"payment", "option">>})}
        MethodFrom(i) ==
            LET found == {g \in Starts(i) :
                            PaymentMethodAt(text, g, single, {"credit", "debit"}, TRUE)
                                # <<>>}
            IN  IF found = {} THEN <<>>
                ELSE PaymentMethodAt(text, Leftmost(found), single, {"credit", "debit"},
                                     TRUE)
        at == Leftmost({i \in 1..Len(text) : MethodFrom(i) # <<>>})
    IN  IF at = 0 THEN NoMatch ELSE MatchOf(at, MethodFrom(at))

\* pay_patterns[1]: a method as a word of its own
BarePaymentMatch(text) ==
    LET single == {"cash", "upi", "netbanking", "paypal", "gpay", "phonepe", "paytm", "cod"}
        at == Leftmost({i \in 1..Len(text) :
                          PaymentMethodAt(text, i, single, {"credit", "debit"}, FALSE)
                              # <<>>})
    IN  IF at = 0 THEN NoMatch
        ELSE MatchOf(at, PaymentMethodAt(text, at, single, {"credit", "debit"}, FALSE))

\* pay_patterns[2] ("digital payment" is a method no text of the vocabulary names)
AcceptedPaymentMatch(text) ==
    LET MethodFrom(i) ==
            LET e == Leftmost(PhraseEnds(text, i, {<<"accept">>, <<"take">>}))
                g == IF e = 0 THEN 0 ELSE SkipSpace(text, e)
            IN  IF e = 0 \/ g = e THEN <<>>
                ELSE PaymentMethodAt(text, g, {"cash", "upi"},
                                     {"credit", "debit"}, FALSE)
        at == Leftmost({i \in 1..Len(text) : MethodFrom(i) # <<>>})
    IN  IF at = 0 THEN NoMatch ELSE MatchOf(at, MethodFrom(at))

\* the loop over pay_patterns
PayMatch(text) ==
    LET first == PrefixedPaymentMatch(text)
        second == BarePaymentMatch(text)
    IN  IF first.matched THEN first
        ELSE IF second.matched THEN second
        ELSE AcceptedPaymentMatch(text)

\* delivery_patterns, in the order of the dict
DeliveryPatterns ==
    << <<"store_pickup", {<<"pickup">>, <<"pick", "up">>, <<"store", "pickup">>,
                          <<"collect">>, <<"come", "and", "get">>}>>,
       <<"home_delivery", {<<"home", "delivery">>, <<"deliver", "to", "home">>,
                           <<"home", "address">>, <<"ship", "to", "home">>}>>,
       <<"express_delivery", {<<"express">>, <<"fast">>, <<"urgent">>,
                              <<"quick", "delivery">>, <<"same", "day">>}>> >>

\* re.search of one of the phrases anywhere in the text
AnyPhraseIn(text, phrases) ==
    \E i \in 1..Len(text) : PhraseEnds(text, i, phrases) # {}

\* the first option one of whose patterns is found; "home_delivery" when none is
DeliveryOption(text) ==
    LET found == {k \in 1..Len(DeliveryPatterns) :
                    AnyPhraseIn(text, DeliveryPatterns[k][2])}
    IN  IF found = {} THEN "home_delivery" ELSE DeliveryPatterns[Leftmost(found)][1]

\* author_patterns[0]: author\s*[:\-]?\s*, by\s+ or written\s*by\s*, then the name group.
\* The other two author patterns need "'s" or "from author", which no text of the
\* vocabulary has; "from author" is found by this pattern already.
AuthorMatch(text) ==
    LET Starts(i) ==
            {AfterSeparator(text, e) : e \in PhraseEnds(text, i, {<<"author">>})}
            \cup {SkipSpace(text, e) :
                    e \in {x \in PhraseEnds(text, i, {<<"by">>}) : SkipSpace(text, x) > x}}
            \cup {SkipSpace(text, e) : e \in PhraseEnds(text, i, {<<"written", "by">>})}
        GroupFrom(i) ==
            LET found == {g \in Starts(i) : NameGroupAt(text, g) # <<>>}
            IN  IF found = {} THEN <<>> ELSE NameGroupAt(text, Leftmost(found))
        at == Leftmost({i \in 1..Len(text) : GroupFrom(i) # <<>>})
    IN  IF at = 0 THEN NoMatch ELSE MatchOf(at, GroupFrom(at))

Genres == {"fiction", "non-fiction", "mystery", "romance", "thriller", "sci-fi", "fantasy",
           "biography", "history", "self-help", "business", "children", "young-adult"}

\* (genre|category)\s*[:\-]?\s*(one of the genres)
GenreMatch(text) ==
    LET GenreFrom(i) ==
            LET e == Leftmost(PhraseEnds(text, i, {<<"genre">>, <<"category">>}))
                g == IF e = 0 THEN 0 ELSE AfterSeparator(text, e)
            IN  IF e # 0 /\ g <= Len(text) /\ OrderLower(text[g]) \in Genres
                THEN <<text[g]>> ELSE <<>>
        at == Leftmost({i \in 1..Len(text) : GenreFrom(i) # <<>>})
    IN  IF at = 0 THEN NoMatch ELSE MatchOf(at, GenreFrom(at))

\* a group after \s*: the white space before it is given back to the group, one
\* character at a time, until the group is long enough.  GroupFrom(g) is the group
\* that starts at g, <<>> when there is none.
BacktrackedStart(text, e, candidates) ==
    IF candidates = {} THEN 0
    ELSE CHOOSE g \in candidates : \A h \in candidates : h <= g

\* ([\d\-\s]{6,20}) at g: digits, hyphens and white space, 6 characters or more (the
\* texts are short of the 20 it stops at)
DigitsGroupAt(text, g) ==
    IF g = 0 \/ g > Len(text) THEN <<>>
    ELSE LET group == SubSeq(text, g,
                             RunEnd(text, g, OrderNumbers \cup WhiteSpace \cup {"-"}))
         IN  IF TextLen(group) >= 6 THEN group ELSE <<>>

\* (id|contact|phone|mobile)( number)?\s*[:\-]?\s*(digits)
CustomerIdMatch(text) ==
    LET GroupFrom(i) ==
            LET ends == PhraseEnds(text, i, {<<"id">>, <<"contact">>, <<"phone">>,
                                            <<"mobile">>, <<"contact", "number">>,
                                            <<"phone", "number">>,
                                            <<"mobile", "number">>})
                e == IF ends = {} THEN 0
                     ELSE CHOOSE x \in ends : \A y \in ends : y <= x
                g == IF e = 0 THEN 0
                     ELSE BacktrackedStart(text, e,
                              {c \in e..AfterSeparator(text, e) :
                                   DigitsGroupAt(text, c) # <<>>})
            IN  IF g = 0 THEN <<>> ELSE DigitsGroupAt(text, g)
        at == Leftmost({i \in 1..Len(text) : GroupFrom(i) # <<>>})
    IN  IF at = 0 THEN NoMatch ELSE MatchOf(at, GroupFrom(at))

\* ([^\n]{least,...}) at g: the rest of the line, `least` characters or more (the lines
\* are short of the length it stops at)
LineGroupAt(text, g, least) ==
    IF g = 0 \/ g > Len(text) THEN <<>>
    ELSE LET group == SubSeq(text, g, RunEnd(text, g, {text[k] : k \in 1..Len(text)}
                                                          \ {Newline}))
         IN  IF TextLen(group) >= least THEN group ELSE <<>>

\* trigger, \s*[:\-]?\s* when `separated` and \s* when not, then the rest of the line
LineMatch(text, phrases, separated, least) ==
    LET GroupFrom(i) ==
            LET ends == PhraseEnds(text, i, phrases)
                e == IF ends = {} THEN 0
                     ELSE CHOOSE x \in ends : \A y \in ends : y <= x
                last == IF separated THEN AfterSeparator(text, e) ELSE SkipSpace(text, e)
                g == IF e = 0 THEN 0
                     ELSE BacktrackedStart(text, e,
                              {c \in e..last : LineGroupAt(text, c, least) # <<>>})
            IN  IF g = 0 THEN <<>> ELSE LineGroupAt(text, g, least)
        at == Leftmost({i \in 1..Len(text) : GroupFrom(i) # <<>>})
    IN  IF at = 0 THEN NoMatch ELSE MatchOf(at, GroupFrom(at))

\* the loop over address_patterns
AddressMatch(text) ==
    LET first == LineMatch(text, {<<"address">>, <<"deliver", "to">>, <<"ship", "to">>,
                                  <<"my", "address", "is">>}, TRUE, 10)
    IN  IF first.matched THEN first
        ELSE LineMatch(text, {<<"live", "at">>, <<"live", "in">>, <<"staying", "at">>,
                              <<"staying", "in">>}, FALSE, 10)

\* the loop over special_patterns
SpecialRequestsMatch(text) ==
    LET first == LineMatch(text, {<<"special", "request">>, <<"note">>, <<"instruction">>,
                                  <<"please", "note">>}, TRUE, 5)
        second == LineMatch(text, {<<"also">>, <<"additionally">>, <<"by", "the", "way">>,
                                   <<"oh", "and">>}, FALSE, 5)
    IN  IF first.matched THEN first
        ELSE IF second.matched THEN second
        ELSE LineMatch(text, {<<"make", "sure">>, <<"ensure">>, <<"remember", "to">>},
                       FALSE, 5)

Quotes == {"'", "\""}

\* title_patterns[0]: a quote, a character that is no quote, the line up to its last
\* quote
QuotedTitleMatch(text) ==
    LET Closers(i) ==
            {k \in (i + 2)..Len(text) :
                /\ text[k] \in Quotes
                /\ text[i + 1] \notin Quotes
                /\ \A j \in (i + 2)..(k - 1) : text[j] # Newline
                /\ TextLen(SubSeq(text, i + 1, k - 1)) >= 2}
        at == Leftmost({i \in 1..Len(text) : text[i] \in Quotes /\ Closers(i) # {}})
    IN  IF at = 0 THEN NoMatch
        ELSE MatchOf(at, SubSeq(text, at + 1,
                                (CHOOSE k \in Closers(at) : \A j \in Closers(at) : j <= k)
                                    - 1))

\* (?:\s*by\s|\s*author|\.|,|$) at k, with "?" too when `question`
TitleEndAt(text, k, question) ==
    LET j == SkipSpace(text, k)
    IN  \/ k > Len(text)
        \/ k = Len(text) /\ text[k] = Newline
        \/ k <= Len(text) /\ text[k] \in ({".", ","} \cup IF question THEN {"?"} ELSE {})
        \/ j <= Len(text) /\ OrderLower(text[j]) = "author"
        \/ j < Len(text) /\ OrderLower(text[j]) = "by" /\ text[j + 1] \in WhiteSpace

\* ([a-zA-Z][^\n]{1,80}?) at g: from a word on, the shortest piece of the line, of 2
\* characters or more, that one of the endings follows
TitleGroupAt(text, g, question) ==
    IF g = 0 \/ g > Len(text) \/ text[g] \notin OrderWords THEN <<>>
    ELSE LET ends == {k \in g..Len(text) :
                        /\ \A j \in g..k : text[j] # Newline
                        /\ TextLen(SubSeq(text, g, k)) >= 2
                        /\ TitleEndAt(text, k + 1, question)}
         IN  IF ends = {} THEN <<>> ELSE SubSeq(text, g, Leftmost(ends))

\* a trigger phrase, what separates it from the title, and the title group
TriggeredTitleMatch(text, phrases, separated, question) ==
    LET GroupFrom(i) ==
            LET starts == {IF separated THEN AfterSeparator(text, e)
                           ELSE IF SkipSpace(text, e) > e THEN SkipSpace(text, e) ELSE 0 :
                             e \in PhraseEnds(text, i, phrases)}
                found == {g \in starts : TitleGroupAt(text, g, question) # <<>>}
            IN  IF found = {} THEN <<>>
                ELSE TitleGroupAt(text, CHOOSE g \in found : \A h \in found : h <= g,
                                  question)
        at == Leftmost({i \in 1..Len(text) : GroupFrom(i) # <<>>})
    IN  IF at = 0 THEN NoMatch ELSE MatchOf(at, GroupFrom(at))

\* the loop over title_patterns
TitleMatch(text) ==
    LET quoted == QuotedTitleMatch(text)
        called == TriggeredTitleMatch(text, {<<"book", "is">>, <<"book", "title">>,
                                             <<"book", "called">>}, TRUE, FALSE)
        wanted == TriggeredTitleMatch(text, {<<"looking", "for">>, <<"want", "book">>,
                                             <<"want", "the", "book">>,
                                             <<"interested", "in">>}, FALSE, FALSE)
        recommended == TriggeredTitleMatch(text, {<<"recommend">>, <<"suggest">>},
                                           FALSE, FALSE)
    IN  IF quoted.matched THEN quoted
        ELSE IF called.matched THEN called
        ELSE IF wanted.matched THEN wanted
        ELSE IF recommended.matched THEN recommended
        ELSE TriggeredTitleMatch(text, {<<"have", "you", "read">>, <<"what", "about">>},
                                 FALSE, TRUE)

\* unit_price, in hundredths
UnitPrice == 1599

\* the field of a match: group(1).strip(), None without a match
StrippedGroup(match) == IF match.matched THEN Text(StripText(match.group1)) ELSE NullText

\* the field of a match: group(1).lower(), None without a match
LoweredGroup(match) == IF match.matched THEN Text(LowerText(match.group1)) ELSE NullText

ExtractOrderDataWith(transcripts, quantity) ==
    LET full_text == JoinLines(transcripts)
        delivery_option == DeliveryOption(full_text)
        quantity_val == quantity.value
    IN  [raised |-> quantity.raised,
         order |->
           [order_id |-> NullText,
            customer_id |-> StrippedGroup(CustomerIdMatch(full_text)),
            customer_name |-> StrippedGroup(NameMatch(full_text)),
            book_title |-> StrippedGroup(TitleMatch(full_text)),
            author |-> StrippedGroup(AuthorMatch(full_text)),
            genre |-> LoweredGroup(GenreMatch(full_text)),
            quantity |-> quantity_val,
            unit_price |-> UnitPrice,
            total_amount |-> IF ~quantity_val.null /\ quantity_val.v # 0
                             THEN IntValue(quantity_val.v * UnitPrice) ELSE NullInt,
            payment_method |-> LoweredGroup(PayMatch(full_text)),
            delivery_option |-> delivery_option,
            delivery_address |-> IF delivery_option = "home_delivery"
                                 THEN StrippedGroup(AddressMatch(full_text))
                                 ELSE NullText,
            order_status |-> "draft",
            order_date |-> NullText,
            special_requests |-> StrippedGroup(SpecialRequestsMatch(full_text))]]

\* extract_order_data
ExtractOrderData(transcripts) ==
    ExtractOrderDataWith(transcripts, QuantityVal(QuantityMatch(JoinLines(transcripts))))

(***************************************************************************)
(* SpecOrders: extract_order_data on every transcript of up to MaxMessages *)
(* messages.                                                               *)
(***************************************************************************)
TranscriptMessages ==
    { <<"my", Space, "name", Space, "is", Space, "Priya">>,
      <<"2", Space, "copies">>,
      <<"pay", Space, "by", Space, "card">>,
      <<"I", Space, "want", Space, "2", Space, "copies">>,
      <<"two", Space, "copies">>,
      <<"fast", Space, "pickup">>,
      <<"12345">>,
      <<"my", Space, "name", Space, "is", Space, "Priya", ",", Space, "2", Space,
        "copies", Space, "please">>,
      <<"genre", Space, "fiction">>,
      <<"also", Space, "gift", Space, "wrap">>,
      <<"phone", Space, "5550100">>,
      <<"want", Space, "book", Space, "Dune">>,
      <<"ship", Space, "to", Space, "5", Space, "Elm", Space, "Road">> }

Transcripts ==
    UNION { [1..n -> TranscriptMessages] : n \in 0..MaxMessages }

OrdersInit ==
    /\ SAInit
    /\ QGInit(FALSE)
    /\ DBInit
    /\ fx_in \in Transcripts
    /\ fx_out = [kind |-> "none"]

ApplyExtractOrderData ==
    /\ fx_out.kind = "none"
    /\ fx_out' = [kind |-> "returned"] @@ ExtractOrderData(fx_in)
    /\ UNCHANGED <<fx_in, sa_vars, qg_vars, db_vars>>

NextOrders == ApplyExtractOrderData

SpecOrders == OrdersInit /\ [][NextOrders]_vars

(***************************************************************************)
(* CallSummaryGenerator (core/call_summary_generator.py).                  *)
(*                                                                         *)
(* A transcript is a sequence of [role, message, timestamp]; a message is  *)
(* a text of tokens as above.  `keyword in message` is the keyword's       *)
(* tokens in a row in the message: no word of the vocabulary holds a       *)
(* keyword inside it.  A number with two decimals is its count of          *)
(* hundredths.  An entry of the four advice lists is a sequence of         *)
(* strings, the parts of the formatted string.  The fields that are        *)
(* computed from the transcript alone and that no other field reads        *)
(* (conversation_summary, key_topics, genres_interested,                   *)
(* authors_mentioned, sentiment_journey, agent_response_quality) are left  *)
(* out.                                                                    *)
(***************************************************************************)
\* the words of the messages of a call
SummaryWords ==
    {"too", "expensive", "very", "sounds", "good", "maybe", "later", "I", "recommend",
     "understand", "Dune", "no", "time", "trust", "boss"}

\* self.objection_keywords, in the order of the list
ObjectionKeywords ==
    << <<"expensive">>, <<"cost">>, <<"price">>, <<"afford">>, <<"budget">>,
       <<"not", Space, "sure">>, <<"don't", Space, "know">>, <<"maybe">>,
       <<"think", Space, "about">>, <<"later">>, <<"busy">>, <<"no", Space, "time">>,
       <<"already", Space, "have">>, <<"don't", Space, "need">>,
       <<"not", Space, "interested">>, <<"concern">>, <<"worried">> >>

\* phrase in text
Within(text, phrase) ==
    \E i \in 1..(Len(text) - Len(phrase) + 1) :
        SubSeq(text, i, i + Len(phrase) - 1) = phrase

\* what a cut inside a token leaves of it
Piece == "~"

\* text[:n]: the tokens that fit in n characters, and a piece of the next one when
\* the cut is inside it
Truncate(text, n) ==
    LET whole == CHOOSE j \in 0..Len(text) :
                    /\ TextLen(SubSeq(text, 1, j)) <= n
                    /\ j = Len(text) \/ TextLen(SubSeq(text, 1, j + 1)) > n
    IN  IF whole = Len(text) \/ TextLen(SubSeq(text, 1, whole)) = n
        THEN SubSeq(text, 1, whole)
        ELSE SubSeq(text, 1, whole) \o <<Piece>>

\* _categorize_objection
CategorizeObjection(keyword) ==
    IF keyword \in {<<"expensive">>, <<"cost">>, <<"price">>, <<"afford">>, <<"budget">>}
    THEN "price"
    ELSE IF keyword \in {<<"not", Space, "sure">>, <<"don't", Space, "know">>, <<"maybe">>,
                         <<"think", Space, "about">>}
    THEN "uncertainty"
    ELSE IF keyword \in {<<"later">>, <<"busy">>, <<"no", Space, "time">>}
    THEN "timing"
    ELSE IF keyword \in {<<"already", Space, "have">>, <<"don't", Space, "need">>,
                         <<"not", Space, "interested">>}
    THEN "need"
    ELSE "general_concern"

\* _extract_objections: one objection for each customer message that holds a keyword,
\* with the first such keyword of the list and the first 200 characters of the message
ExtractObjections(customer_messages) ==
    LET FirstKeyword(msg) ==
            Leftmost({k \in 1..Len(ObjectionKeywords) :
                        Within(LowerText(msg.message), ObjectionKeywords[k])})
        objecting == SelectSeq(customer_messages, LAMBDA msg : FirstKeyword(msg) # 0)
    IN  [j \in 1..Len(objecting) |->
            LET keyword == ObjectionKeywords[FirstKeyword(objecting[j])]
            IN  [type |-> CategorizeObjection(keyword),
                 keyword |-> keyword,
                 message |-> Truncate(objecting[j].message, 200),
                 timestamp |-> objecting[j].timestamp]]

\* _identify_addressed_concerns: the objections for which the message after the first
\* message of the transcript equal to objection["message"] is of the assistant
IdentifyAddressedConcerns(all_transcripts, objections) ==
    LET Index(objection) ==
            Leftmost({i \in 1..Len(all_transcripts) :
                        all_transcripts[i].message = objection.message})
        answered == SelectSeq(objections,
                        LAMBDA objection :
                            /\ Index(objection) > 0
                            /\ Index(objection) + 1 <= Len(all_transcripts)
                            /\ all_transcripts[Index(objection) + 1].role = "assistant")
    IN  [j \in 1..Len(answered) |->
            [objection_type |-> answered[j].type,
             objection |-> Truncate(answered[j].message, 100),
             response |-> Truncate(all_transcripts[Index(answered[j]) + 1].message, 200),
             addressed |-> TRUE]]

\* _identify_unresolved_concerns: list(set(...)) of "type: keyword", as a set
IdentifyUnresolvedConcerns(objections, addressed) ==
    LET addressed_types == {addressed[j].objection_type : j \in 1..Len(addressed)}
    IN  {<<objections[j].type, objections[j].keyword>> :
            j \in {k \in 1..Len(objections) : objections[k].type \notin addressed_types}}

\* _extract_books_discussed: the quoted titles of more than 3 characters, stripped,
\* each once (by its lower case), the first 10.  The class of the pattern holds the
\* apostrophe, so a title runs to the last quote its characters reach; the messages
\* of the vocabulary hold at most one pair of quotes.
ExtractBooksDiscussed(transcripts) ==
    LET TitleClass == OrderWords \cup SummaryWords \cup OrderNumbers \cup WhiteSpace \cup {":", ",", "-", "'"}
        Closers(message, i) ==
            {k \in (i + 2)..Len(message) :
                /\ message[k] \in Quotes
                /\ \A j \in (i + 1)..(k - 1) : message[j] \in TitleClass}
        Open(message) ==
            Leftmost({i \in 1..Len(message) :
                        message[i] \in Quotes /\ Closers(message, i) # {}})
        Title(message) ==
            SubSeq(message, Open(message) + 1,
                   (CHOOSE k \in Closers(message, Open(message)) :
                        \A j \in Closers(message, Open(message)) : j <= k) - 1)
        mentioning == SelectSeq(transcripts,
                          LAMBDA t : /\ Open(t.message) # 0
                                     /\ TextLen(Title(t.message)) > 3)
        books == [j \in 1..Len(mentioning) |->
                    [title |-> StripText(Title(mentioning[j].message)),
                     mentioned_by |-> mentioning[j].role,
                     context |-> "mentioned in conversation"]]
        first == {j \in 1..Len(books) :
                    \A k \in 1..(j - 1) :
                        LowerText(books[k].title) # LowerText(books[j].title)}
        RECURSIVE Unique(_)
        Unique(j) ==
            IF j > Len(books) THEN <<>>
            ELSE (IF j \in first THEN <<books[j]>> ELSE <<>>) \o Unique(j + 1)
    IN  SubSeq(Unique(1), 1, Min(Len(Unique(1)), 10))

\* _calculate_overall_sentiment
CalculateOverallSentiment(sentiment_data) ==
    IF sentiment_data = <<>> THEN "neutral"
    ELSE sentiment_data[Len(sentiment_data)].overall_sentiment

\* _calculate_engagement_level
CalculateEngagementLevel(transcripts) ==
    LET customer_msgs == SelectSeq(transcripts, LAMBDA t : t.role = "user")
    IN  IF Len(customer_msgs) > 8 THEN "high"
        ELSE IF Len(customer_msgs) > 4 THEN "medium"
        ELSE "low"

\* _estimate_satisfaction, in hundredths
EstimateSatisfaction(call_outcome) ==
    IF call_outcome = "success" THEN 80
    ELSE IF call_outcome = "partial_success" THEN 60
    ELSE 50

\* _count_recommendations
CountRecommendations(agent_messages) ==
    Len(SelectSeq(agent_messages,
            LAMBDA m : \E k \in {<<"recommend">>, <<"suggest">>, <<"might", Space, "like">>} :
                            Within(LowerText(m.message), k)))

\* round(a / b, 2) in hundredths: the nearest, the even one of two equally near
RoundHundredths(a, b) ==
    LET q == (100 * a) \div b
        r == (100 * a) % b
    IN  IF 2 * r > b \/ (2 * r = b /\ q % 2 = 1) THEN q + 1 ELSE q

\* _score_objection_handling, in hundredths
ScoreObjectionHandling(objections, addressed) ==
    IF objections = <<>> THEN 100 ELSE RoundHundredths(Len(addressed), Len(objections))

\* _evaluate_closing
EvaluateClosing(call_outcome) ==
    IF call_outcome = "success" THEN "strong"
    ELSE IF call_outcome = "partial_success" THEN "moderate"
    ELSE "weak"

\* _identify_strengths
IdentifyStrengths(recommendations_made, objection_handling_score, overall_sentiment, call_outcome) ==
    LET strengths ==
            (IF recommendations_made >= 3
             THEN << <<"Made", ToString(recommendations_made),
                       "personalized book recommendations">> >>
             ELSE <<>>)
            \o (IF objection_handling_score >= 80
                THEN << <<"Effectively addressed customer concerns">> >> ELSE <<>>)
            \o (IF overall_sentiment \in {"positive", "very_positive"}
                THEN << <<"Maintained positive customer sentiment">> >> ELSE <<>>)
            \o (IF call_outcome = "success"
                THEN << <<"Successfully closed the sale">> >> ELSE <<>>)
    IN  IF strengths # <<>> THEN strengths ELSE << <<"Completed customer interaction">> >>

\* the list of the rules alone, without the default entry
IdentifyImprovementAreasWithoutDefault(objections, addressed, engagement_level, call_outcome) ==
    (IF Len(objections) > Len(addressed)
     THEN << <<"Improve objection handling">> >> ELSE <<>>)
    \o (IF engagement_level = "low"
        THEN << <<"Increase customer engagement">> >> ELSE <<>>)
    \o (IF call_outcome = "information_only"
        THEN << <<"Work on closing techniques">> >> ELSE <<>>)

\* _identify_improvement_areas
IdentifyImprovementAreas(objections, addressed, engagement_level, call_outcome) ==
    LET improvements ==
            (IF Len(objections) > Len(addressed)
             THEN << <<"Improve objection handling">> >> ELSE <<>>)
            \o (IF engagement_level = "low"
                THEN << <<"Increase customer engagement">> >> ELSE <<>>)
            \o (IF call_outcome = "information_only"
                THEN << <<"Work on closing techniques">> >> ELSE <<>>)
    IN  IF improvements # <<>> THEN improvements
        ELSE << <<"Maintain current performance">> >>

\* _generate_follow_up_actions
GenerateFollowUpActions(call_outcome, unresolved_concerns, books_discussed) ==
    LET actions ==
            (IF unresolved_concerns # {}
             THEN << <<"Follow up on unresolved customer concerns">> >> ELSE <<>>)
            \o (IF call_outcome = "partial_success"
                THEN << <<"Send follow-up email with personalized book recommendations">> >>
                ELSE <<>>)
            \o (IF books_discussed # <<>> /\ call_outcome # "success"
                THEN << <<"Send information about discussed books">> >> ELSE <<>>)
    IN  IF actions # <<>> THEN actions ELSE << <<"No immediate follow-up required">> >>

\* ', '.join(improvement_areas[:2]) after "Focus on: "
FocusOn(improvement_areas) ==
    <<"Focus on: ">> \o improvement_areas[1]
        \o (IF Len(improvement_areas) > 1 THEN <<", ">> \o improvement_areas[2] ELSE <<>>)

\* _generate_coaching_points
GenerateCoachingPoints(improvement_areas, objection_handling_score, closing_effectiveness) ==
    LET points ==
            (IF objection_handling_score < 70
             THEN << <<"Practice objection handling techniques">> >> ELSE <<>>)
            \o (IF closing_effectiveness = "weak"
                THEN << <<"Work on closing skills and asking for the order">> >>
                ELSE <<>>)
            \o (IF improvement_areas # <<>>
                THEN << FocusOn(improvement_areas) >> ELSE <<>>)
    IN  IF points # <<>> THEN points ELSE << <<"Continue current performance">> >>

\* generate_summary: call_outcome, order_placed and order_value
CallOutcome(order_data) ==
    IF ~order_data.null /\ order_data.order_status \notin {Str("draft"), NullStr}
    THEN [call_outcome |-> "success", order_placed |-> TRUE,
          order_value |-> order_data.total_amount]
    ELSE IF ~order_data.null /\ ~order_data.book_title.null
                /\ order_data.book_title.v # ""
    THEN [call_outcome |-> "partial_success", order_placed |-> FALSE,
          order_value |-> NullInt]
    ELSE [call_outcome |-> "information_only", order_placed |-> FALSE,
          order_value |-> NullInt]

\* generate_summary
GenerateSummary(room_id, transcripts, order_data, sentiment_data) ==
    LET customer_messages == SelectSeq(transcripts, LAMBDA t : t.role = "user")
        agent_messages == SelectSeq(transcripts, LAMBDA t : t.role = "assistant")
        outcome == CallOutcome(order_data)
        call_outcome == outcome.call_outcome
        books_discussed == ExtractBooksDiscussed(transcripts)
        objections_raised == ExtractObjections(customer_messages)
        concerns_addressed == IdentifyAddressedConcerns(transcripts, objections_raised)
        unresolved_concerns ==
            IdentifyUnresolvedConcerns(objections_raised, concerns_addressed)
        overall_sentiment == CalculateOverallSentiment(sentiment_data)
        engagement_level == CalculateEngagementLevel(transcripts)
        recommendations_made == CountRecommendations(agent_messages)
        objection_handling_score ==
            ScoreObjectionHandling(objections_raised, concerns_addressed)
        closing_effectiveness == EvaluateClosing(call_outcome)
        improvement_areas ==
            IdentifyImprovementAreas(objections_raised, concerns_addressed,
                                     engagement_level, call_outcome)
    IN  [room_id |-> room_id,
         call_duration_seconds |->
            IF transcripts = <<>> THEN 0
            ELSE transcripts[Len(transcripts)].timestamp - transcripts[1].timestamp,
         total_messages |-> Len(transcripts),
         customer_messages |-> Len(customer_messages),
         agent_messages |-> Len(agent_messages),
         call_outcome |-> call_outcome,
         order_placed |-> outcome.order_placed,
         order_value |-> outcome.order_value,
         books_discussed |-> books_discussed,
         objections_raised |-> objections_raised,
         concerns_addressed |-> concerns_addressed,
         unresolved_concerns |-> unresolved_concerns,
         overall_sentiment |-> overall_sentiment,
         engagement_level |-> engagement_level,
         customer_satisfaction |-> EstimateSatisfaction(call_outcome),
         recommendations_made |-> recommendations_made,
         objection_handling_score |-> objection_handling_score,
         closing_effectiveness |-> closing_effectiveness,
         strengths |-> IdentifyStrengths(recommendations_made, objection_handling_score,
                                         overall_sentiment, call_outcome),
         improvement_areas |-> improvement_areas,
         follow_up_actions |->
            GenerateFollowUpActions(call_outcome, unresolved_concerns, books_discussed),
         coaching_points |->
            GenerateCoachingPoints(improvement_areas, objection_handling_score,
                                   closing_effectiveness)]

(***************************************************************************)
(* SpecSummary: generate_summary on the transcripts of up to MaxTurns      *)
(* messages, alone or after five customer messages without a keyword       *)
(* (engagement is low up to four customer messages), with each kind of     *)
(* order and with and without sentiment data.                              *)
(***************************************************************************)
\* text * n
Repeat(text, n) == [i \in 1..(n * Len(text)) |-> text[((i - 1) % Len(text)) + 1]]

\* a customer message of 209 characters whose keyword is after the first 200
LongMessage == Repeat(<<"very", Space>>, 40) \o <<"expensive">>

SummaryTurns ==
    { [role |-> "user", message |-> <<"too", Space, "expensive">>],
      [role |-> "user", message |-> LongMessage],
      [role |-> "user", message |-> <<"sounds", Space, "good">>],
      [role |-> "user", message |-> <<"maybe", Space, "later">>],
      [role |-> "assistant",
       message |-> <<"I", Space, "recommend", Space, "'", "Dune", "'">>],
      [role |-> "assistant", message |-> <<"I", Space, "understand">>] }

\* the messages as the transcript store returns them, timestamps in order
Stamped(turns) ==
    [i \in 1..Len(turns) |->
        [role |-> turns[i].role, message |-> turns[i].message, timestamp |-> 10 * i]]

SummaryTranscripts ==
    { Stamped([i \in 1..k |-> [role |-> "user", message |-> <<"sounds", Space, "good">>]]
              \o turns) :
        k \in {0, 5}, turns \in UNION {[1..n -> SummaryTurns] : n \in 0..MaxTurns} }

OrderDatas ==
    {NoOrderData} \cup
    [null : {FALSE}, order_status : {Str("draft"), Str("confirmed")},
     book_title : {NullStr, Str("Dune")}, total_amount : {NullInt, IntValue(1599)}]

SentimentDatas == {<<>>, <<[overall_sentiment |-> "positive"]>>}

SummaryInit ==
    /\ SAInit
    /\ QGInit(FALSE)
    /\ DBInit
    /\ fx_in \in [transcripts : SummaryTranscripts, order_data : OrderDatas,
                  sentiment_data : SentimentDatas]
    /\ fx_out = [kind |-> "none"]

ApplyGenerateSummary ==
    /\ fx_out.kind = "none"
    /\ fx_out' = [kind |-> "returned",
                  summary |-> GenerateSummary("room1", fx_in.transcripts,
                                              fx_in.order_data, fx_in.sentiment_data)]
    /\ UNCHANGED <<fx_in, sa_vars, qg_vars, db_vars>>

NextSummary == ApplyGenerateSummary

SpecSummary == SummaryInit /\ [][NextSummary]_vars

(***************************************************************************)
(* The order and summary store (db/database.py) and the handlers that      *)
(* write it (main.py, core/call_end_handler.py).                           *)
(*                                                                         *)
(* A collection is the set of its documents; the dictionary of the memory  *)
(* mode is the collection that holds one document per key.  A handler is   *)
(* split where it awaits between its read of the order and its store of    *)
(* the summary.  The transcripts of a room are what the store returns,     *)
(* one of StoredTranscripts; no sentiment data is stored.  A summary_id,   *)
(* a random identifier in the code, is the number of the generation.       *)
(***************************************************************************)
\* the documents of a room
SummariesOf(documents, room_id) == {d \in documents : d.room_id = room_id}

\* a store that inserts the document and replaces none
StoreCallSummaryInsertOnly(documents, room_id, summary_data) ==
    {documents \cup {summary_data}}

\* a store that keeps the document a room already has
StoreCallSummaryKeepExisting(documents, room_id, summary_data) ==
    IF SummariesOf(documents, room_id) = {} THEN {documents \cup {summary_data}}
    ELSE {documents}

\* store_call_summary: self._memory_call_summaries[room_id] = summary_data, or
\* replace_one({"room_id": room_id}, summary_data, upsert=True): the collections
\* it can leave
StoreCallSummary(documents, room_id, summary_data) ==
    IF SummariesOf(documents, room_id) = {} THEN {documents \cup {summary_data}}
    ELSE {(documents \ {d}) \cup {summary_data} : d \in SummariesOf(documents, room_id)}

\* delete_call_summary: del self._memory_call_summaries[room_id], or
\* delete_one({"room_id": room_id})
DeleteOneCallSummary(documents, room_id) ==
    {documents \ {d} : d \in SummariesOf(documents, room_id)}

\* submit_order (main.py): the order of the request, confirmed, with its total
SubmitOrder(room_id, book_title, quantity) ==
    /\ orders' = [orders EXCEPT ![room_id] =
                    [null |-> FALSE, order_status |-> Str("confirmed"),
                     book_title |-> book_title,
                     total_amount |-> IF quantity.null THEN NullInt
                                      ELSE IntValue(quantity.v * UnitPrice),
                     updated_at |-> NullStr]]
    /\ UNCHANGED <<memory_transcripts, call_summaries, cs_inflight, cs_calls, cs_last, admin_vars>>

\* update_order_status (main.py): 404 without an order, else the status of the request
UpdateOrderStatus(room_id, status) ==
    /\ ~orders[room_id].null
    /\ orders' = [orders EXCEPT ![room_id].order_status = Str(status),
                                ![room_id].updated_at = Str("utcnow")]
    /\ UNCHANGED <<memory_transcripts, call_summaries, cs_inflight, cs_calls, cs_last, admin_vars>>

\* generate_call_summary and generate_call_end_report up to get_order: the transcripts
\* and the order of the room are read
SummaryStart(room_id, transcripts) ==
    /\ cs_calls < MaxSummaryCalls
    /\ cs_calls' = cs_calls + 1
    /\ cs_inflight' = cs_inflight \cup
           {[id |-> cs_calls + 1, room_id |-> room_id, transcripts |-> transcripts,
             order_data |-> orders[room_id]]}
    /\ UNCHANGED <<orders, memory_transcripts, call_summaries, cs_last, admin_vars>>

\* generate_call_summary (main.py): 404 when the room has no transcripts
GenerateCallSummaryStart(room_id, transcripts) ==
    /\ transcripts # <<>>
    /\ SummaryStart(room_id, transcripts)

\* generate_call_end_report (core/call_end_handler.py)
GenerateCallEndReportStart(room_id, transcripts) == SummaryStart(room_id, transcripts)

\* the rest of both handlers: generate_summary on what was read, store_call_summary
SummaryFinish(call, sentiment_data) ==
    LET summary == GenerateSummary(call.room_id, call.transcripts, call.order_data,
                                   sentiment_data)
        summary_data == [summary_id |-> call.id] @@ summary
    IN  /\ call \in cs_inflight
        /\ cs_inflight' = cs_inflight \ {call}
        /\ call_summaries' \in StoreCallSummary(call_summaries, call.room_id, summary_data)
        /\ cs_last' = [cs_last EXCEPT ![call.room_id] =
                          [op |-> "stored", summary_id |-> call.id,
                           replaced |-> SummariesOf(call_summaries, call.room_id) # {},
                           order_data |-> call.order_data,
                           call_outcome |-> summary.call_outcome]]
        /\ UNCHANGED <<orders, memory_transcripts, cs_calls, admin_vars>>

\* delete_call_summary (main.py): 404 when the room has no summary
DeleteCallSummary(room_id) ==
    /\ SummariesOf(call_summaries, room_id) # {}
    /\ call_summaries' \in DeleteOneCallSummary(call_summaries, room_id)
    /\ cs_last' = [cs_last EXCEPT ![room_id].op = "deleted"]
    /\ UNCHANGED <<orders, memory_transcripts, cs_inflight, cs_calls, admin_vars>>

(***************************************************************************)
(* SpecStore: orders submitted and updated, summaries generated,           *)
(* regenerated and deleted, in any interleaving, MaxSummaryCalls           *)
(* generations in all.                                                     *)
(***************************************************************************)
StoredTranscripts ==
    { <<>>,
      Stamped(<< [role |-> "user", message |-> <<"too", Space, "expensive">>],
                 [role |-> "assistant", message |-> <<"I", Space, "understand">>] >>) }

\* the statuses an update request carries
StatusInputs == {"rejected", "draft"}

NextStore ==
    \/ /\ \E room_id \in SummaryRooms, book_title \in {NullStr, Str("Dune")} :
              SubmitOrder(room_id, book_title, IntValue(2))
       /\ UNCHANGED <<sa_vars, qg_vars, fx_vars>>
    \/ /\ \E room_id \in SummaryRooms, status \in StatusInputs :
              UpdateOrderStatus(room_id, status)
       /\ UNCHANGED <<sa_vars, qg_vars, fx_vars>>
    \/ /\ \E room_id \in SummaryRooms, transcripts \in StoredTranscripts :
              GenerateCallSummaryStart(room_id, transcripts)
       /\ UNCHANGED <<sa_vars, qg_vars, fx_vars>>
    \/ /\ \E room_id \in SummaryRooms, transcripts \in StoredTranscripts :
              GenerateCallEndReportStart(room_id, transcripts)
       /\ UNCHANGED <<sa_vars, qg_vars, fx_vars>>
    \/ /\ \E call \in cs_inflight : SummaryFinish(call, <<>>)
       /\ UNCHANGED <<sa_vars, qg_vars, fx_vars>>
    \/ /\ \E room_id \in SummaryRooms : DeleteCallSummary(room_id)
       /\ UNCHANGED <<sa_vars, qg_vars, fx_vars>>

SpecStore == Init /\ [][NextStore]_vars

(***************************************************************************)
(* process_transcription (main.py 687-786).  The handler stores the item,  *)
(* scores a user message (suspended in analyze_message_sentiment), reads   *)
(* the room's transcripts, extracts the order and returns it.  Items       *)
(* arrive with new ids and with timestamps in the order of arrival.        *)
(***************************************************************************)
MessagesOfItems(items) == [i \in 1..Len(items) |-> items[i].message]

\* lines 753-777: get_transcripts puts the messages read into fx_in,
\* extract_order_data runs on them; fx_out is the RoomData returned (its order), or
\* with raised the HTTP 500 of lines 779-781
\* lines 689-711: store_transcript, then either the scoring call begins or, for an
\* assistant item or a blank message, the handler runs to its end
ProcessTranscriptionStart(room_id, role, message) ==
    LET stored == Append(memory_transcripts[room_id], [role |-> role, message |-> message])
    IN  /\ Len(memory_transcripts[room_id]) < MaxMessages
        /\ memory_transcripts' = [memory_transcripts EXCEPT ![room_id] = stored]
        /\ UNCHANGED <<orders, call_summaries, cs_inflight, cs_calls, cs_last, admin_vars>>
        /\ IF role = "user" /\ Strip(message) # <<>>
           THEN /\ AnalyzeStart(room_id, message, CapEnvironment, CapCalls)
                /\ UNCHANGED fx_vars
           ELSE /\ fx_in' = MessagesOfItems(stored)
                /\ fx_out' = [kind |-> "returned", room_id |-> room_id]
                                  @@ ExtractOrderData(fx_in')
                /\ UNCHANGED sa_vars

\* a handler that also stores the order it has extracted
ProcessTranscriptionFinishStoringOrder(call, four) ==
    /\ AnalyzeFinish(call, four, ErrorResult, AnalyzeSalesContext(call.message))
    /\ fx_in' = MessagesOfItems(memory_transcripts[call.user_id])
    /\ fx_out' = [kind |-> "returned", room_id |-> call.user_id]
                      @@ ExtractOrderData(fx_in')
    /\ orders' = [orders EXCEPT ![call.user_id] =
                    [null |-> FALSE, order_status |-> Str("draft"),
                     book_title |-> NullStr, total_amount |-> NullInt,
                     updated_at |-> NullStr]]
    /\ UNCHANGED <<memory_transcripts, call_summaries, cs_inflight, cs_calls, cs_last, admin_vars>>

\* lines 712-777: the score is there (or the scoring failed, lines 750-752); the
\* transcripts are read and the order extracted from them
ProcessTranscriptionFinish(call, four) ==
    /\ AnalyzeFinish(call, four, ErrorResult, AnalyzeSalesContext(call.message))
    /\ fx_in' = MessagesOfItems(memory_transcripts[call.user_id])
    /\ fx_out' = [kind |-> "returned", room_id |-> call.user_id]
                      @@ ExtractOrderData(fx_in')
    /\ UNCHANGED db_vars

(***************************************************************************)
(* SpecTranscription: messages arrive for a room while its order is        *)
(* submitted and its status updated.                                       *)
(***************************************************************************)
ArrivingMessages ==
    { <<"two", Space, "copies">>,
      <<"want", Space, "book", Space, "Dune">>,
      <<Space>> }

\* the statuses an update request of the admin carries (line 1541)
AdminStatusInputs == {"confirmed", "rejected"}

NextTranscription ==
    \/ /\ \E room_id \in UserIds, role \in {"user", "assistant"},
             message \in ArrivingMessages :
              ProcessTranscriptionStart(room_id, role, message)
       /\ UNCHANGED qg_vars
    \/ /\ \E call \in sa_inflight :
              ProcessTranscriptionFinish(call,
                  <<ErrorResult, ErrorResult, VaderResult(-(Unit \div 2)),
                    TextBlobResult(<<Unit, Unit>>)>>)
       /\ UNCHANGED qg_vars
    \/ /\ \E room_id \in UserIds, book_title \in {NullStr, Str("Dune")} :
              SubmitOrder(room_id, book_title, IntValue(2))
       /\ UNCHANGED <<sa_vars, qg_vars, fx_vars>>
    \/ /\ \E room_id \in UserIds, status \in AdminStatusInputs :
              UpdateOrderStatus(room_id, status)
       /\ UNCHANGED <<sa_vars, qg_vars, fx_vars>>

TranscriptionInit ==
    /\ SAInit
    /\ QGInit(FALSE)
    /\ DBInit
    /\ fx_in = <<>>
    /\ fx_out = [kind |-> "none"]

SpecTranscription == TranscriptionInit /\ [][NextTranscription]_vars

(***************************************************************************)
(* Admin accounts (main.py 871-1050, db/database.py 238-392).  An account  *)
(* is a record of admins; its password stands for the salted hash, which   *)
(* verify_password matches against the same password only.  now counts     *)
(* days here.  The look-ups are those of the collection; the in-memory     *)
(* list compares with ==, where a query operator matches nothing, as an    *)
(* unknown id does.                                                        *)
(***************************************************************************)
TokenDays == 7

\* secrets.token_urlsafe(32) and generate_employee_id for the n-th account
VerificationTokens == <<"token1", "token2", "token3", "token4">>
EmployeeIds == <<"EMP1", "EMP2", "EMP3", "EMP4">>

\* the first account find_one / the loop over _memory_admins gives, 0 for None
FirstAdmin(matching) ==
    IF matching = {} THEN 0 ELSE CHOOSE i \in matching : \A j \in matching : i <= j

\* get_admin_by_email
GetAdminByEmail(email) == FirstAdmin({i \in 1..Len(admins) : admins[i].email = email})

\* get_admin_by_verification_token
GetAdminByVerificationToken(token) ==
    FirstAdmin({i \in 1..Len(admins) : admins[i].email_verification_token = Str(token)})

\* get_admin_by_employee_id: the filter {"employee_id": employee_id}, where
\* employee_id is a string of the request or an operator such as {"$ne": ""}
GetAdminByEmployeeId(employee_id) ==
    FirstAdmin({i \in 1..Len(admins) :
                  IF employee_id.op = "eq" THEN admins[i].employee_id = Str(employee_id.v)
                  ELSE admins[i].employee_id # Str(employee_id.v)})

\* a token whose check of the expiry passes whenever it is made
TokenNeverExpires(admin) == FALSE

\* lines 1019-1022 of verify_admin_email: datetime.now() > expires_at
TokenExpired(admin) ==
    /\ ~admin.email_verification_expires.null
    /\ now > admin.email_verification_expires.v

\* register_admin
RegisterAdmin(email, password) ==
    /\ Len(admins) < MaxAdmins
    /\ IF GetAdminByEmail(email) # 0
       THEN /\ auth_last' = [op |-> "register", status |-> 400, admin |-> 0]
            /\ UNCHANGED admins
       ELSE /\ admins' = Append(admins,
                    [email |-> email, password |-> password, employee_id |-> NullStr,
                     status |-> "pending_verification", email_verified |-> FALSE,
                     email_verification_token |-> Str(VerificationTokens[Len(admins) + 1]),
                     email_verification_expires |-> IntValue(now + TokenDays),
                     last_login |-> NullInt])
            /\ auth_last' = [op |-> "register", status |-> 200, admin |-> Len(admins) + 1]
    /\ UNCHANGED <<orders, memory_transcripts, call_summaries, cs_inflight, cs_calls, cs_last>>

\* verify_admin_email and update_admin_verification
VerifyAdminEmail(token) ==
    LET admin == GetAdminByVerificationToken(token)
    IN  /\ IF token = "" \/ admin = 0 \/ TokenExpired(admins[admin])
           THEN /\ auth_last' = [op |-> "verify", status |-> 400, admin |-> 0]
                /\ UNCHANGED admins
           ELSE /\ admins' = [admins EXCEPT ![admin] =
                        [@ EXCEPT !.email_verified = TRUE,
                                  !.status = "active",
                                  !.email_verification_token = NullStr,
                                  !.email_verification_expires = NullInt,
                                  !.employee_id = Str(EmployeeIds[admin])]]
                /\ auth_last' = [op |-> "verify", status |-> 200, admin |-> admin]
        /\ UNCHANGED <<orders, memory_transcripts, call_summaries, cs_inflight, cs_calls,
                       cs_last>>

\* login with userType admin: the status of the answer and the account it names
LoginAnswer(employee_id, password) ==
    LET admin == GetAdminByEmployeeId(employee_id)
    IN  IF (employee_id.op = "eq" /\ employee_id.v = "") \/ password = ""
        THEN [op |-> "login", status |-> 400, admin |-> 0]
        ELSE IF admin = 0 \/ admins[admin].password # password
        THEN [op |-> "login", status |-> 401, admin |-> 0]
        ELSE IF ~admins[admin].email_verified \/ admins[admin].status # "active"
        THEN [op |-> "login", status |-> 403, admin |-> admin]
        ELSE [op |-> "login", status |-> 200, admin |-> admin]

\* login: update_admin_last_login sets last_login of the first account the filter
\* gives
Login(employee_id, password) ==
    /\ auth_last' = LoginAnswer(employee_id, password)
    /\ admins' = IF auth_last'.status = 200
                 THEN [admins EXCEPT ![auth_last'.admin].last_login = IntValue(now)]
                 ELSE admins
    /\ UNCHANGED <<orders, memory_transcripts, call_summaries, cs_inflight, cs_calls, cs_last>>

\* a day passes
PassDay ==
    /\ now < MaxDays
    /\ now' = now + 1
    /\ UNCHANGED <<models_initialized, openai_client, llama_pipeline, emotion_pipeline,
                   sentiment_history, sa_inflight, sa_calls, sa_ret, sa_appended>>

(***************************************************************************)
(* SpecAdmins: accounts are registered, verified and logged into, in any   *)
(* order, while the days pass.                                             *)
(***************************************************************************)
AdminEmails == {"a@bookwise.com", "b@bookwise.com"}
AdminPasswords == {"", "pw1", "pw2"}
TokenInputs == {"", "token1", "token2", "token5"}
EmployeeIdInputs ==
    { [op |-> "eq", v |-> ""], [op |-> "eq", v |-> "EMP1"], [op |-> "eq", v |-> "EMP2"],
      [op |-> "ne", v |-> ""] }

NextAdmins ==
    \/ /\ \E email \in AdminEmails, password \in AdminPasswords \ {""} :
              RegisterAdmin(email, password)
       /\ UNCHANGED <<sa_vars, qg_vars, fx_vars>>
    \/ /\ \E token \in TokenInputs : VerifyAdminEmail(token)
       /\ UNCHANGED <<sa_vars, qg_vars, fx_vars>>
    \/ /\ \E employee_id \in EmployeeIdInputs, password \in AdminPasswords :
              Login(employee_id, password)
       /\ UNCHANGED <<sa_vars, qg_vars, fx_vars>>
    \/ /\ PassDay
       /\ UNCHANGED <<qg_vars, db_vars, fx_vars>>

SpecAdmins == Init /\ [][NextAdmins]_vars

(***************************************************************************)
(* handle_objection (services/question_generator.py).                      *)
(*                                                                         *)
(* An objection text is a text of tokens; `phrase in text_lower` is the    *)
(* phrase's tokens in a row in the lowered text.                           *)
(***************************************************************************)
\* _detect_objection_type: the phrase lists, in the order they are tried
ObjectionPhrases ==
    << <<"price_objection",
         { <<"too", Space, "expensive">>, <<"too", Space, "much">>,
           <<"can't", Space, "afford">>, <<"price">>, <<"cost">> }>>,
       <<"need_objection",
         { <<"don't", Space, "need">>, <<"not", Space, "interested">>,
           <<"not", Space, "looking", Space, "for">> }>>,
       <<"trust_objection",
         { <<"not", Space, "sure">>, <<"don't", Space, "know">>, <<"unfamiliar">>,
           <<"never", Space, "heard">> }>>,
       <<"time_objection",
         { <<"no", Space, "time">>, <<"busy">>, <<"later">>, <<"not", Space, "now">> }>>,
       <<"authority_objection",
         { <<"need", Space, "to", Space, "ask">>, <<"check", Space, "with">>,
           <<"think", Space, "about">> }>> >>

\* the lists of ObjectionPhrases a phrase of which is in the text
MatchingLists(objection_text) ==
    {k \in 1..Len(ObjectionPhrases) :
        \E phrase \in ObjectionPhrases[k][2] : Within(LowerText(objection_text), phrase)}

\* a detection that takes the last list with a phrase in the text
DetectObjectionTypeLastMatch(objection_text) ==
    IF MatchingLists(objection_text) = {} THEN "price_objection"
    ELSE ObjectionPhrases[CHOOSE k \in MatchingLists(objection_text) :
                              \A j \in MatchingLists(objection_text) : j <= k][1]

\* _detect_objection_type
DetectObjectionType(objection_text) ==
    IF MatchingLists(objection_text) = {} THEN "price_objection"
    ELSE ObjectionPhrases[Leftmost(MatchingLists(objection_text))][1]

\* ObjectionResponse(...)
ObjectionResponse(objection_type, response_text, technique, follow_up_questions, confidence_boosters) ==
    [null |-> FALSE, objection_type |-> objection_type, response_text |-> response_text,
     technique |-> technique, follow_up_questions |-> follow_up_questions,
     confidence_boosters |-> confidence_boosters]

\* None where an ObjectionResponse is expected
NoObjectionResponse ==
    [null |-> TRUE, objection_type |-> "", response_text |-> "", technique |-> "",
     follow_up_questions |-> <<>>, confidence_boosters |-> <<>>]

\* the objection types _initialize_objection_responses gives responses for
RespondedTypes ==
    {"price_objection", "need_objection", "trust_objection", "time_objection"}

\* self.objection_responses after _initialize_objection_responses
ObjectionResponses ==
    [objection_type \in RespondedTypes |->
        CASE objection_type = "price_objection" ->
               << ObjectionResponse("price_objection",
                    "I understand price is important. Let me show you the value this book provides. It's not just about the price, but about the knowledge and enjoyment you'll get from reading it.",
                    "Value justification",
                    <<"What would you consider a fair price for a book that could change your perspective?">>,
                    <<"This book has helped thousands of readers",
                      "The author is a recognized expert">>),
                  ObjectionResponse("price_objection",
                    "I hear you on the price. What if I told you this book could save you money in the long run by teaching you valuable skills?",
                    "ROI justification",
                    <<"What's the most you've ever spent on something that changed your life?">>,
                    <<"Many readers say this book paid for itself within weeks">>) >>
          [] objection_type = "need_objection" ->
               << ObjectionResponse("need_objection",
                    "I understand you might not see the immediate need. But based on what you've told me about your interests, this book could open up new possibilities you haven't considered.",
                    "Need creation",
                    <<"What if this book could help you discover something you didn't know you were looking for?">>,
                    <<"Many readers discover new passions through this book">>) >>
          [] objection_type = "trust_objection" ->
               << ObjectionResponse("trust_objection",
                    "I completely understand wanting to be sure about your purchase. This author has a proven track record and thousands of satisfied readers. Would you like to see some reviews?",
                    "Social proof",
                    <<"What would help you feel more confident about this choice?">>,
                    <<"The author has won multiple awards", "This is a bestseller">>) >>
          [] objection_type = "time_objection" ->
               << ObjectionResponse("time_objection",
                    "I understand you're busy. This book is actually designed for busy people - it's easy to read in short sessions. What's your typical reading schedule?",
                    "Time reframing",
                    <<"How much time do you usually spend reading each week?">>,
                    <<"Many busy professionals love this book's format">>) >> ]

\* _select_best_objection_response
SelectBestObjectionResponse(responses, context) ==
    IF responses # <<>> THEN responses[1] ELSE NoObjectionResponse

\* handle_objection
HandleObjection(objection_text, context) ==
    LET objection_type == DetectObjectionType(objection_text)
    IN  IF objection_type \notin DOMAIN ObjectionResponses THEN NoObjectionResponse
        ELSE SelectBestObjectionResponse(ObjectionResponses[objection_type], context)

(***************************************************************************)
(* SpecObjections: handle_objection on the texts made of one or two        *)
(* fragments, each a phrase of a list or a text without any, in a fresh    *)
(* context and in contexts with another objection level and intent.        *)
(***************************************************************************)
ObjectionFragments ==
    UNION {ObjectionPhrases[k][2] : k \in 1..Len(ObjectionPhrases)}
        \cup { <<"sounds", Space, "good">>, <<"I", Space, "trust", Space, "my", Space, "boss">> }

ObjectionTexts ==
    ObjectionFragments
        \cup {a \o <<",", Space>> \o b : a \in ObjectionFragments, b \in ObjectionFragments}

ObjectionContexts ==
    { [NewContext EXCEPT !.objection_level = o, !.purchase_intent = p] :
        o \in {Num(0), Num((8 * Unit) \div 10)}, p \in {Num(Unit \div 2), Num(Unit)} }

ObjectionsInit ==
    /\ SAInit
    /\ QGInit(FALSE)
    /\ DBInit
    /\ fx_in \in [objection_text : ObjectionTexts, context : ObjectionContexts]
    /\ fx_out = [kind |-> "none"]

ApplyHandleObjection ==
    /\ fx_out.kind = "none"
    /\ fx_out' = [kind |-> "returned",
                  objection_type |-> DetectObjectionType(fx_in.objection_text),
                  response |-> HandleObjection(fx_in.objection_text, fx_in.context)]
    /\ UNCHANGED <<fx_in, sa_vars, qg_vars, db_vars>>

NextObjections == ApplyHandleObjection

SpecObjections == ObjectionsInit /\ [][NextObjections]_vars

(***************************************************************************)
(* Properties.                                                             *)
(***************************************************************************)
AllSpaces(message) == \A i \in 1..Len(message) : message[i] = Space

\* what pass i of `four` adds to the sum for key, with the weights in percent
Share(four, i, key) ==
    IF four[i].kind = "dict" /\ "error" \notin DOMAIN four[i].d /\ key \in DOMAIN four[i].d
    THEN (four[i].d[key].v * <<30, 25, 25, 20>>[i]) \div 100
    ELSE 0

Sharing(four, key) ==
    {i \in 1..4 : four[i].kind = "dict" /\ "error" \notin DOMAIN four[i].d
                  /\ key \in DOMAIN four[i].d}

ShareSum(four, key) ==
    Share(four, 1, key) + Share(four, 2, key) + Share(four, 3, key) + Share(four, 4, key)

\* C1: the history of an id is the most recent min(n, 50) of the n scores appended
\* for it, in the order of appending; so it never holds more than 50, and the 51st
\* append evicts the oldest.
C1_HistoryIsMostRecent50 ==
    \A u \in UserIds :
        LET history == HistoryOf(u)
            n == Len(sa_appended[u])
            k == IF n < 50 THEN n ELSE 50
        IN  /\ Len(history) <= 50
            /\ Len(history) = k
            /\ \A i \in 1..k : history[i] = sa_appended[u][n - k + i]

C1_Witness ==
    \E u \in UserIds : Len(sa_appended[u]) = 51 /\ Len(HistoryOf(u)) = 50

InUnit(x) == 0 <= x /\ x <= Unit

\* C2: every score returned has confidence, subjectivity, intensity and the sales
\* metrics in [0,1] and polarity in [-1,1], whatever the passes answered.
C2_MetricsInBounds ==
    sa_ret.kind # "none" =>
        /\ InUnit(sa_ret.score.confidence)
        /\ InUnit(sa_ret.score.subjectivity)
        /\ InUnit(sa_ret.score.intensity)
        /\ InUnit(sa_ret.score.urgency)
        /\ InUnit(sa_ret.score.engagement)
        /\ InUnit(sa_ret.score.satisfaction)
        /\ InUnit(sa_ret.score.purchase_intent)
        /\ InUnit(sa_ret.score.objection_level)
        /\ InUnit(sa_ret.score.trust_level)
        /\ -Unit <= sa_ret.score.polarity /\ sa_ret.score.polarity <= Unit

SentimentLabels == {"very_positive", "positive", "neutral", "negative", "very_negative"}

\* C3: a call never ends in an exception; it returns a score with one of the five
\* labels, and in a computed score a pass that failed or is absent adds nothing:
\* polarity and confidence are the sums over the passes that answered, the emotions
\* are empty unless the emotion pass answered.
C3_NeverRaises ==
    /\ sa_ret.kind \in {"none", "empty", "error", "score"}
    /\ sa_ret.kind # "none" => sa_ret.score.overall_sentiment \in SentimentLabels
    /\ sa_ret.kind = "score" =>
          LET four == sa_ret.results[1]
              emotions_result == sa_ret.results[2]
          IN  /\ sa_ret.score.polarity = ShareSum(four, "polarity")
              /\ sa_ret.score.confidence =
                     IF Sharing(four, "confidence") = {} THEN Unit \div 2
                     ELSE ShareSum(four, "confidence")
              /\ emotions_result = ErrorResult => sa_ret.score.emotions = {}

\* every pass that can fail has failed, and a score came back
C3_Witness ==
    /\ sa_ret.kind = "score"
    /\ openai_client /\ llama_pipeline /\ emotion_pipeline
    /\ \A i \in 1..4 : sa_ret.results[1][i] = ErrorResult
    /\ sa_ret.results[2] = ErrorResult

\* C4: a call with an empty or whitespace-only message returns the fixed neutral
\* score at once: no pass is started for it and no history changes.
C4_EmptyMessageIsNeutral ==
    [][ /\ \A call \in sa_inflight' : ~AllSpaces(call.raw)
        /\ (sa_ret' # sa_ret /\ AllSpaces(sa_ret'.raw)) =>
              /\ sa_ret'.kind = "empty"
              /\ sa_ret'.results = <<>>
              /\ sa_ret'.score.overall_sentiment = "neutral"
              /\ sa_ret'.score.confidence = Unit \div 2
              /\ sa_ret'.score.polarity = 0
              /\ sa_ret'.score.urgency = 0
              /\ sa_ret'.score.engagement = Unit \div 2
              /\ sa_ret'.score.satisfaction = Unit \div 2
              /\ sa_ret'.score.purchase_intent = Unit \div 2
              /\ sa_ret'.score.objection_level = 0
              /\ sa_ret'.score.trust_level = Unit \div 2
              /\ sentiment_history' = sentiment_history
              /\ sa_inflight' = sa_inflight ]_vars

\* a whitespace-only message arrived for an id that has a score in its history
C4_Witness ==
    /\ sa_ret.kind = "empty"
    /\ sa_ret.raw = <<Space, Space>>
    /\ \E u \in UserIds : Len(HistoryOf(u)) = 1

\* C5: polarity and confidence of a computed score are the averages over the passes
\* that answered, with the weights of those passes renormalized to sum to 1.
C5_WeightsRenormalized ==
    sa_ret.kind = "score" =>
        LET four == sa_ret.results[1]
            Total(key) ==
                LET w == [i \in 1..4 |->
                             IF i \in Sharing(four, key) THEN <<30, 25, 25, 20>>[i] ELSE 0]
                IN  w[1] + w[2] + w[3] + w[4]
        IN  /\ Sharing(four, "polarity") # {} =>
                  sa_ret.score.polarity * Total("polarity")
                      = 100 * ShareSum(four, "polarity")
            /\ Sharing(four, "confidence") # {} =>
                  sa_ret.score.confidence * Total("confidence")
                      = 100 * ShareSum(four, "confidence")

Tenths(n) == (n * Unit) \div 10

\* C6: the stage is objection_handling whenever objection_level > 0.6; otherwise it
\* is closing whenever purchase_intent > 0.7, trust_level > 0.6 and more than 3
\* questions were asked.
C6_ObjectionThenClosing ==
    fx_out # None =>
        /\ fx_in.objection_level.v > Tenths(6) => fx_out = "objection_handling"
        /\ ( /\ fx_in.objection_level.v <= Tenths(6)
             /\ fx_in.purchase_intent.v > Tenths(7)
             /\ fx_in.trust_level.v > Tenths(6)
             /\ Len(fx_in.questions_asked) > 3 ) => fx_out = "closing"

\* objection_handling although every closing signal is there
C6_Witness ==
    /\ fx_out = "objection_handling"
    /\ fx_in.purchase_intent.v > Tenths(7)
    /\ fx_in.trust_level.v > Tenths(6)
    /\ Len(fx_in.questions_asked) > 3
    /\ Len(fx_in.topics_discussed) > 2

Distinct(list) == {list[i] : i \in 1..Len(list)}

\* the context stored for the room of the last call
LastContext == ctx_heap[conversation_contexts[qg_ret.room_id]]

\* C7: when neither the objection rule nor the closing rule applies and fewer than 3
\* questions were asked, the stage is presentation only with at least 3 distinct
\* topics, one of them genre, author, fiction or non-fiction; with fewer than 3
\* distinct topics it is discovery.
C7_PresentationNeedsThreeDistinctTopics ==
    ( /\ qg_ret.path = "template"
      /\ conversation_contexts[qg_ret.room_id] # 0
      /\ qg_ret.objection_level.v <= Tenths(6)
      /\ ~( /\ LastContext.purchase_intent.v > Tenths(7)
            /\ LastContext.trust_level.v > Tenths(6)
            /\ Len(qg_ret.asked_before) > 3 )
      /\ Len(qg_ret.asked_before) < 3 ) =>
        LET topics == Distinct(LastContext.topics_discussed)
        IN  /\ qg_ret.stage = "presentation" =>
                  /\ Cardinality(topics) >= 3
                  /\ topics \cap {"genre", "author", "fiction", "non-fiction"} # {}
            /\ Cardinality(topics) < 3 => qg_ret.stage = "discovery"

\* C8: the stage of every stored context, and the stage every call resolves, is an
\* enum value, and never follow_up.
C8_StageIsLiveEnumValue ==
    /\ \A r \in Rooms :
          conversation_contexts[r] # 0 =>
              ctx_heap[conversation_contexts[r]].stage
                  \in {"opening", "discovery", "presentation", "objection_handling",
                       "closing"}
    /\ qg_ret.path # "none" =>
          qg_ret.stage \in {"opening", "discovery", "presentation", "objection_handling",
                            "closing"}

\* the third call found a context with nothing asked yet: the room was cleared, or
\* its earlier calls returned no question
C8_Witness ==
    /\ qg_ret.path = "template"
    /\ qg_ret.call = 3
    /\ qg_ret.asked_before = <<>>
    /\ conversation_contexts[qg_ret.room_id] # 0
    /\ LastContext.stage = "presentation"

\* the templates of a stage that pass the filter of the claim
Surviving(stage, asked, objection_level) ==
    { i \in 1..Len(QuestionTemplates(stage)) :
        /\ ~InList(QuestionTemplates(stage)[i].text, asked)
        /\ ~( QuestionTemplates(stage)[i].objection_handling
              /\ objection_level.v < Tenths(3) ) }

\* C9: on the template path the question returned is either a template of the
\* resolved stage that was not asked before and is no objection-handling template
\* under objection_level < 0.3, or, when no template of the stage survives that
\* filter, the generic prompt.
C9_TemplateNotRepeated ==
    qg_ret.path = "template" =>
        /\ qg_ret.question # NoQuestion
        /\ qg_ret.question.question_id # "GENERIC_001" =>
              /\ InList(qg_ret.question, QuestionTemplates(qg_ret.stage))
              /\ ~InList(qg_ret.question.text, qg_ret.asked_before)
              /\ ~( qg_ret.question.objection_handling
                    /\ qg_ret.objection_level.v < Tenths(3) )
        /\ Surviving(qg_ret.stage, qg_ret.asked_before, qg_ret.objection_level) = {} =>
              qg_ret.question = GenericQuestion(qg_ret.stage)

\* both templates of the stage were asked, the generic prompt comes back
C9_Witness ==
    /\ qg_ret.path = "template"
    /\ qg_ret.question.question_id = "GENERIC_001"
    /\ Len(qg_ret.asked_before) = 2
    /\ qg_ret.stage = "objection_handling"

\* C10: when the external generation fails, the call still returns a template of the
\* resolved stage or the generic prompt.
C10_FallsBackToTemplate ==
    (qg_ret.path = "ai" /\ qg_ret.failed) =>
        \/ InList(qg_ret.question, QuestionTemplates(qg_ret.stage))
        \/ qg_ret.question = GenericQuestion(qg_ret.stage)

\* the transitions detect_sentiment_shifts is to look at: i = 1 is the most recent
Examined(history) ==
    IF Len(history) < 2 THEN {}
    ELSE 1..(IF Len(history) - 1 < 5 THEN Len(history) - 1 ELSE 5)

\* twice the magnitude of transition i, counted from the end of the history
TwiceMagnitude(history, i) ==
    LET cur == history[Len(history) - i + 1]
        prev == history[Len(history) - i]
    IN  (IF cur.polarity >= prev.polarity THEN cur.polarity - prev.polarity
         ELSE prev.polarity - cur.polarity)
        + (IF cur.confidence >= prev.confidence THEN cur.confidence - prev.confidence
           ELSE prev.confidence - cur.confidence)

Reported(history) ==
    {i \in Examined(history) : 5 * TwiceMagnitude(history, i) > 3 * Unit}

\* the position in the history of the score with this timestamp
PositionOf(history, timestamp) ==
    CHOOSE k \in 1..Len(history) : history[k].timestamp = timestamp

\* C11: with fewer than 2 entries the result is empty; otherwise the result lists, most
\* recent first, exactly the transitions among the min(n-1, 5) most recent ones whose
\* magnitude is above 0.3 (a shift carries the timestamp of its current score).
C11_ShiftsOfLastFivePairs ==
    fx_in # None =>
        LET history == HistoryOf(fx_in)
            n == Len(history)
        IN  /\ n < 2 => fx_out = <<>>
            /\ Len(fx_out) = Cardinality(Reported(history))
            /\ {fx_out[j].timestamp : j \in 1..Len(fx_out)}
                   = {history[n - i + 1].timestamp : i \in Reported(history)}
            /\ \A j \in 1..(Len(fx_out) - 1) : fx_out[j].timestamp > fx_out[j + 1].timestamp

\* seven entries: the oldest transition is a shift and is not looked at, one of the
\* five recent ones is reported, one has magnitude 0.3 exactly and is not
C11_Witness ==
    /\ fx_in # None
    /\ Len(HistoryOf(fx_in)) = 7
    /\ 5 * TwiceMagnitude(HistoryOf(fx_in), 6) > 3 * Unit
    /\ \E i \in 1..5 : 5 * TwiceMagnitude(HistoryOf(fx_in), i) = 3 * Unit
    /\ Len(fx_out) = 1

\* C12: every reported shift between prev and cur has magnitude
\* (|cur.polarity - prev.polarity| + |cur.confidence - prev.confidence|) / 2, within
\* [0, 2]; direction positive, negative or neutral as cur.polarity is above, below or
\* equal to prev.polarity; confidence the smaller of the two confidences.
C12_ShiftFields ==
    fx_in # None =>
        \A j \in 1..Len(fx_out) :
            LET history == HistoryOf(fx_in)
                k == PositionOf(history, fx_out[j].timestamp)
                cur == history[k]
                prev == history[k - 1]
                i == Len(history) - k + 1
            IN  /\ 2 * fx_out[j].shift_magnitude = TwiceMagnitude(history, i)
                /\ 0 <= fx_out[j].shift_magnitude
                /\ fx_out[j].shift_magnitude <= 2 * Unit
                /\ fx_out[j].shift_direction =
                       (IF cur.polarity > prev.polarity THEN "positive"
                        ELSE IF cur.polarity < prev.polarity THEN "negative"
                        ELSE "neutral")
                /\ fx_out[j].confidence <= cur.confidence
                /\ fx_out[j].confidence <= prev.confidence
                /\ fx_out[j].confidence \in {cur.confidence, prev.confidence}

\* the messages of the transcript at hand, as a set
MessagesOf(transcripts) == {transcripts[i] : i \in 1..Len(transcripts)}

\* C13: a transcript made of the messages "my name is Priya", "2 copies" and "pay by
\* card" gives customer_name "Priya", quantity 2, payment_method "card",
\* delivery_option "home_delivery" and order_status "draft".
C13_PriyaTwoCopiesByCard ==
    ( /\ fx_out.kind = "returned"
      /\ MessagesOf(fx_in) = { <<"my", Space, "name", Space, "is", Space, "Priya">>,
                               <<"2", Space, "copies">>,
                               <<"pay", Space, "by", Space, "card">> } ) =>
        /\ ~fx_out.raised
        /\ fx_out.order.customer_name = [null |-> FALSE, v |-> <<"Priya">>]
        /\ fx_out.order.quantity = [null |-> FALSE, v |-> 2]
        /\ fx_out.order.payment_method = [null |-> FALSE, v |-> <<"card">>]
        /\ fx_out.order.delivery_option = "home_delivery"
        /\ fx_out.order.order_status = "draft"

\* C14: extract_order_data returns for every transcript, the empty one too, an order
\* with order_status "draft"; a field none of whose patterns matches is null, but
\* delivery_option, which is then "home_delivery"; the fields no pattern feeds
\* (order_id, order_date, and total_amount without a quantity) are null.
C14_DraftWithNullDefaults ==
    fx_out.kind = "returned" =>
        LET full_text == JoinLines(fx_in)
            order == fx_out.order
        IN  /\ ~fx_out.raised
            /\ order.order_status = "draft"
            /\ ~CustomerIdMatch(full_text).matched => order.customer_id.null
            /\ ~NameMatch(full_text).matched => order.customer_name.null
            /\ ~TitleMatch(full_text).matched => order.book_title.null
            /\ ~AuthorMatch(full_text).matched => order.author.null
            /\ ~GenreMatch(full_text).matched => order.genre.null
            /\ ~QuantityMatch(full_text).matched => order.quantity.null
            /\ ~PayMatch(full_text).matched => order.payment_method.null
            /\ ~AddressMatch(full_text).matched => order.delivery_address.null
            /\ ~SpecialRequestsMatch(full_text).matched => order.special_requests.null
            /\ (\A k \in 1..Len(DeliveryPatterns) :
                    ~AnyPhraseIn(full_text, DeliveryPatterns[k][2]))
                  => order.delivery_option = "home_delivery"
            /\ order.order_id.null /\ order.order_date.null
            /\ order.quantity.null => order.total_amount.null
            /\ fx_in = <<>> =>
                  /\ order.customer_id.null /\ order.customer_name.null
                  /\ order.book_title.null /\ order.author.null /\ order.genre.null
                  /\ order.quantity.null /\ order.payment_method.null
                  /\ order.delivery_address.null /\ order.special_requests.null
                  /\ order.delivery_option = "home_delivery"

\* a transcript with a number word and a unit: the quantity pattern without a group
\* matches, the conversion fails inside, and the order comes back without a quantity
C14_Witness ==
    /\ fx_out.kind = "returned"
    /\ fx_in = << <<"two", Space, "copies">> >>
    /\ QuantityMatch(JoinLines(fx_in)).matched
    /\ fx_out.order.quantity.null
    /\ fx_out.order.payment_method.null
    /\ fx_out.order.order_status = "draft"

\* the positions of the customer messages that hold an objection keyword
Objecting(transcripts) ==
    {i \in 1..Len(transcripts) :
        /\ transcripts[i].role = "user"
        /\ \E k \in 1..Len(ObjectionKeywords) :
              Within(LowerText(transcripts[i].message), ObjectionKeywords[k])}

\* C16: the objections counted as addressed are those whose customer message is
\* followed at once by a message of the assistant, whatever the length of the message
\* and however often its text occurs: there are as many addressed concerns as such
\* messages.
C16_AddressedIffAnswered ==
    fx_out.kind = "returned" =>
        Len(fx_out.summary.concerns_addressed) =
            Cardinality({i \in Objecting(fx_in.transcripts) :
                            /\ i + 1 <= Len(fx_in.transcripts)
                            /\ fx_in.transcripts[i + 1].role = "assistant"})

\* C17: strengths, improvement_areas, follow_up_actions and coaching_points of a
\* summary are never empty, and each is its one generic entry when none of its rules
\* fires on the values of the summary.
C17_AdviceListsDefault ==
    fx_out.kind = "returned" =>
        LET s == fx_out.summary
        IN  /\ s.strengths # <<>> /\ s.improvement_areas # <<>>
            /\ s.follow_up_actions # <<>> /\ s.coaching_points # <<>>
            /\ ( /\ s.recommendations_made < 3
                 /\ s.objection_handling_score < 80
                 /\ s.overall_sentiment \notin {"positive", "very_positive"}
                 /\ s.call_outcome # "success" )
                  => s.strengths = << <<"Completed customer interaction">> >>
            /\ ( /\ Len(s.objections_raised) <= Len(s.concerns_addressed)
                 /\ s.engagement_level # "low"
                 /\ s.call_outcome # "information_only" )
                  => s.improvement_areas = << <<"Maintain current performance">> >>
            /\ ( /\ s.unresolved_concerns = {}
                 /\ s.call_outcome # "partial_success"
                 /\ (s.books_discussed = <<>> \/ s.call_outcome = "success") )
                  => s.follow_up_actions = << <<"No immediate follow-up required">> >>
            /\ ( /\ s.objection_handling_score >= 70
                 /\ s.closing_effectiveness # "weak"
                 /\ s.improvement_areas = <<>> )
                  => s.coaching_points = << <<"Continue current performance">> >>

\* a summary none of whose improvement and follow-up rules fires
C17_Witness ==
    /\ fx_out.kind = "returned"
    /\ Len(fx_out.summary.objections_raised) = 1
    /\ fx_out.summary.engagement_level = "medium"
    /\ fx_out.summary.improvement_areas = << <<"Maintain current performance">> >>
    /\ fx_out.summary.follow_up_actions = << <<"No immediate follow-up required">> >>
    /\ fx_out.summary.coaching_points =
          << <<"Focus on: ", "Maintain current performance">> >>

\* C15: the outcome of a summary is success when the order read for it is confirmed
\* (a status other than draft and a book title), partial_success when the order has a
\* book title and is not confirmed, and information_only otherwise.
C15_OutcomeOfOrder ==
    \A room_id \in SummaryRooms :
        cs_last[room_id].op = "stored" =>
            LET order_data == cs_last[room_id].order_data
                titled == ~order_data.null /\ ~order_data.book_title.null
                confirmed == titled /\ order_data.order_status # Str("draft")
            IN  cs_last[room_id].call_outcome =
                    IF confirmed THEN "success"
                    ELSE IF titled THEN "partial_success"
                    ELSE "information_only"

\* C18: a room has at most one summary in the store; after a generation it is the
\* summary of that generation, also when the room had one before; after a delete the
\* room has none until a generation stores one.
C18_OneSummaryPerRoom ==
    \A room_id \in SummaryRooms :
        LET mine == SummariesOf(call_summaries, room_id)
        IN  /\ Cardinality(mine) <= 1
            /\ cs_last[room_id].op \in {"none", "deleted"} => mine = {}
            /\ cs_last[room_id].op = "stored" =>
                  \E d \in mine : d.summary_id = cs_last[room_id].summary_id

\* a summary generated, regenerated and then deleted
C18_Witness ==
    /\ cs_last["room1"].op = "deleted"
    /\ cs_last["room1"].replaced
    /\ cs_last["room1"].summary_id = 2
    /\ cs_inflight = {}
    /\ call_summaries = {}

\* a phrase of the k-th list of ObjectionPhrases is in the lowered text
HasPhraseOf(k, objection_text) ==
    \E phrase \in ObjectionPhrases[k][2] : Within(LowerText(objection_text), phrase)

\* C19: the objection type is that of the first of the lists price, need, trust, time,
\* authority a phrase of which is in the text, and price when there is none; a text
\* with "too expensive" is price, a text with "no time" and no price, need or trust
\* phrase is time.
C19_FirstMatchingList ==
    fx_out.kind = "returned" =>
        LET text == fx_in.objection_text
        IN  /\ [k \in 1..5 |-> ObjectionPhrases[k][1]] =
                  <<"price_objection", "need_objection", "trust_objection",
                    "time_objection", "authority_objection">>
            /\ \A k \in 1..5 :
                  (HasPhraseOf(k, text) /\ \A j \in 1..(k - 1) : ~HasPhraseOf(j, text))
                      => fx_out.objection_type = ObjectionPhrases[k][1]
            /\ (\A k \in 1..5 : ~HasPhraseOf(k, text))
                  => fx_out.objection_type = "price_objection"
            /\ Within(LowerText(text), <<"too", Space, "expensive">>)
                  => fx_out.objection_type = "price_objection"
            /\ ( /\ Within(LowerText(text), <<"no", Space, "time">>)
                 /\ \A j \in 1..3 : ~HasPhraseOf(j, text) )
                  => fx_out.objection_type = "time_objection"

\* a text with a time phrase before a trust phrase: the trust list is tried first
C19_Witness ==
    /\ fx_out.kind = "returned"
    /\ fx_in.objection_text =
          <<"no", Space, "time", ",", Space, "not", Space, "sure">>
    /\ fx_out.objection_type = "trust_objection"

\* C20: for each of the types price, need, trust, time and authority that the
\* detection returns, handle_objection returns the first response of the table of that
\* type, whatever the context.
C20_FirstResponseOfType ==
    fx_out.kind = "returned" =>
        /\ ~fx_out.response.null
        /\ fx_out.response.objection_type = fx_out.objection_type
        /\ fx_out.objection_type \in DOMAIN ObjectionResponses
              => fx_out.response = ObjectionResponses[fx_out.objection_type][1]

\* C21: a room without a stored context gets one only in a step that begins a
\* generate_question call for it, so after clear_conversation_context the room stays
\* without a context until the next call begins, also when a call was suspended on
\* the external generation at the moment of the clear.
C21_ClearedUntilNextCall ==
    [][\A r \in Rooms :
          (conversation_contexts[r] = 0 /\ conversation_contexts'[r] # 0)
              => qg_calls' = qg_calls + 1]_vars

\* the history stored for an id, read from the map itself
StoredHistory(u) == IF u \in DOMAIN sentiment_history THEN sentiment_history[u] ELSE <<>>

\* when the call that produced the score was started
StartedAt(score) == score.timestamp - score.processing_time

\* C22: the history of an id lists the scores in the order in which their scoring
\* calls were started, also when the calls overlap and finish in another order.
C22_HistoryInArrivalOrder ==
    \A u \in UserIds :
        LET history == StoredHistory(u)
        IN  \A i, j \in 1..Len(history) :
                i < j => StartedAt(history[i]) < StartedAt(history[j])

\* one step of the history of u: cleared, or a suffix of what it was (the oldest
\* entries evicted, and only at the cap) followed by at most one new entry
HistoryStep(u) ==
    LET before == StoredHistory(u)
        after == StoredHistory(u)'
    IN  \/ u \notin DOMAIN sentiment_history'
        \/ \E k \in 0..Len(before), n \in {0, 1} :
              /\ Len(after) = Len(before) - k + n
              /\ \A i \in 1..(Len(before) - k) : after[i] = before[k + i]
              /\ k > 0 => Len(after) = HistoryCap

\* C23: the history of every id is ordered by non-decreasing timestamp, and an
\* entry once appended is never modified: it leaves the history only by eviction of
\* the oldest at the cap or by clear_sentiment_history.
C23_OrderedAndNeverModified ==
    /\ [](\A u \in UserIds :
            LET history == StoredHistory(u)
            IN  \A i, j \in 1..Len(history) :
                    i < j => history[i].timestamp <= history[j].timestamp)
    /\ [][\A u \in UserIds : HistoryStep(u)]_vars

\* overlapping calls have filled the history beyond the cap
C23_Witness ==
    \E u \in UserIds :
        /\ Len(StoredHistory(u)) = HistoryCap
        /\ StoredHistory(u)[1] # sa_appended[u][1]
        /\ \E i \in 1..HistoryCap : StoredHistory(u)[i].processing_time > 1

\* C24: when two summary generations of a room overlap, the summary the room has
\* after both is the one of the generation whose store step ran last, also when
\* that generation read the room's data before the other one did.
C24_LastWriterWins ==
    \A r \in SummaryRooms :
        cs_last[r].op = "stored" =>
            /\ SummariesOf(call_summaries, r) # {}
            /\ \A d \in SummariesOf(call_summaries, r) :
                   /\ d.summary_id = cs_last[r].summary_id
                   /\ d.call_outcome = cs_last[r].call_outcome

\* both generations of one room have stored, the one that started first stored last
C24_Witness ==
    \E r \in SummaryRooms :
        /\ cs_inflight = {}
        /\ cs_calls = 2
        /\ cs_last[r].op = "stored"
        /\ cs_last[r].replaced
        /\ cs_last[r].summary_id = 1
        /\ \E d \in call_summaries : d.room_id = r /\ d.summary_id = 1

\* the stored order of a room is a confirmed one
IsConfirmed(order) == ~order.null /\ order.order_status = Str("confirmed")

\* a step of process_transcription: an item is stored or a scoring call of it ends
ArrivalStep == memory_transcripts' # memory_transcripts \/ sa_inflight' # sa_inflight

\* every order process_transcription returns is a draft
ReturnsDraft == (fx_out.kind = "returned" /\ ~fx_out.raised) => fx_out.order.order_status = "draft"

BySubmitOrder(r) == \E book_title \in {NullStr, Str("Dune")} : SubmitOrder(r, book_title, IntValue(2))

\* C25 as stated: no step of process_transcription creates or changes a stored
\* order, every order it returns is a draft, and a stored order becomes confirmed
\* only in a step of submit_order.
C25_ConfirmedOnlyBySubmitOrder ==
    /\ []ReturnsDraft
    /\ [][ArrivalStep => orders' = orders]_vars
    /\ [][\A r \in SummaryRooms :
            (~IsConfirmed(orders[r]) /\ IsConfirmed(orders'[r])) => BySubmitOrder(r)]_vars

\* C25, amended: no step of process_transcription creates or changes a stored
\* order, every order it returns is a draft, and a stored order becomes confirmed
\* only in a step of submit_order or of update_order_status with status confirmed.
C25_ConfirmedOnlyByExplicitRequest ==
    /\ []ReturnsDraft
    /\ [][ArrivalStep => orders' = orders]_vars
    /\ [][\A r \in SummaryRooms :
            (~IsConfirmed(orders[r]) /\ IsConfirmed(orders'[r]))
                => (BySubmitOrder(r) \/ UpdateOrderStatus(r, "confirmed"))]_vars

\* messages of the room were answered with a draft while its stored order is confirmed
C25_Witness ==
    /\ IsConfirmed(orders["room1"])
    /\ Len(memory_transcripts["room1"]) = MaxMessages
    /\ StoredHistory("room1") # <<>>
    /\ fx_out.kind = "returned"
    /\ fx_out.order.order_status = "draft"
    /\ ~fx_out.order.book_title.null

\* word_to_num (main.py 513-516)
WordToNum(word) ==
    CASE word = "one" -> 1 [] word = "two" -> 2 [] word = "three" -> 3
      [] word = "four" -> 4 [] word = "five" -> 5 [] word = "six" -> 6
      [] word = "seven" -> 7 [] word = "eight" -> 8 [] word = "nine" -> 9
      [] OTHER -> 10

\* C26: a transcript that gives the quantity as a number word from one to ten
\* followed by "copies" or "books", and no numeric quantity, yields that number as
\* quantity and quantity x unit price as total_amount.
C26_SpelledOutQuantity ==
    fx_out.kind = "returned" =>
        LET full_text == JoinLines(fx_in)
            spelled == WordQuantityMatch(full_text)
            number == WordToNum(OrderLower(full_text[spelled.at]))
        IN  (spelled.matched /\ QuantityMatch(full_text) = spelled) =>
                /\ ~fx_out.raised
                /\ fx_out.order.quantity = IntValue(number)
                /\ fx_out.order.total_amount = IntValue(number * UnitPrice)

\* the stage of the context stored for a room
StageOf(r) ==
    IF conversation_contexts[r] = 0 THEN "none" ELSE ctx_heap[conversation_contexts[r]].stage

\* C27: for a room whose context is not cleared, once a generate_question call has
\* computed the stage presentation or closing, no later call computes discovery.
C27_NoReturnToDiscovery ==
    \A r \in Rooms :
        [](StageOf(r) \in {"presentation", "closing"} => [](StageOf(r) # "discovery"))

\* closing was computed and further calls follow
C27_Witness ==
    \E r \in Rooms : StageOf(r) = "closing" /\ qg_inflight = {} /\ qg_calls < MaxDialogue

ScoredNow(u) ==
    {call \in sa_inflight \ sa_inflight' : call.user_id = u /\ sa_ret'.kind = "score"}

\* C29: when several analyze_message_sentiment calls of one id overlap, no append is
\* lost or duplicated: a call that ends with a computed score adds exactly one entry
\* and no other step adds or removes one, so after k such calls on a fresh id the
\* history has k entries.
C29_OneEntryPerScoredCall ==
    /\ [](\A u \in UserIds :
            Len(sa_appended[u]) <= HistoryCap => Len(StoredHistory(u)) = Len(sa_appended[u]))
    /\ [][\A u \in UserIds :
            Len(StoredHistory(u))' = Len(StoredHistory(u)) + Cardinality(ScoredNow(u))]_vars

\* two calls of one id that overlapped have both recorded their score
C29_Witness ==
    \E u \in UserIds :
        /\ sa_inflight = {}
        /\ Len(StoredHistory(u)) = 2
        /\ StartedAt(StoredHistory(u)[2]) < StoredHistory(u)[1].timestamp

\* the account is verified and active
IsActiveAdmin(admin) == admin.email_verified /\ admin.status = "active"

\* account i becomes verified and active in this step
BecomesActive(i) ==
    /\ i \in 1..Len(admins')
    /\ IsActiveAdmin(admins'[i])
    /\ i \in 1..Len(admins) => ~IsActiveAdmin(admins[i])

\* this step is a successful verify_admin_email with the unexpired token of account i
VerifiedWithOwnToken(i) ==
    /\ i \in 1..Len(admins)
    /\ ~admins[i].email_verification_token.null
    /\ now <= admins[i].email_verification_expires.v
    /\ VerifyAdminEmail(admins[i].email_verification_token.v)
    /\ auth_last' = [op |-> "verify", status |-> 200, admin |-> i]

\* C30: an admin login succeeds only for an account that is email_verified with
\* status active, and an account gets there only by a successful verify_admin_email
\* with its unexpired token; so whatever is registered, verified and logged into, no
\* login succeeds for an account that was never verified.
C30_LoginOnlyAfterVerification ==
    /\ []((auth_last.op = "login" /\ auth_last.status = 200) =>
              /\ auth_last.admin \in 1..Len(admins)
              /\ IsActiveAdmin(admins[auth_last.admin]))
    /\ [][\A i \in 1..MaxAdmins : BecomesActive(i) => VerifiedWithOwnToken(i)]_vars

\* the second account was verified and has logged in; the first never was, and its
\* token has expired
C30_Witness ==
    /\ Len(admins) = 2
    /\ auth_last = [op |-> "login", status |-> 200, admin |-> 2]
    /\ ~admins[2].last_login.null
    /\ ~admins[1].email_verified
    /\ admins[1].employee_id.null
    /\ now > admins[1].email_verification_expires.v

==============================================================================
